---- MODULE Spec2Model ----
(***************************************************************************)
(* CodeDeck inference hub: the single-slot ModelEngine (model_loader.py),  *)
(* the chat_completions / load endpoints and the streamed response         *)
(* generator stream_chat_response (api.py), and the application lifespan   *)
(* (main.py).                                                              *)
(*                                                                         *)
(* The service runs on one asyncio event loop.  Code between two           *)
(* suspension points (a yield of the response generator, an                *)
(* asyncio.sleep) runs without interleaving.  load_model contains no       *)
(* suspension point: its statements are modelled as successive steps of    *)
(* one call frame (lpc, lframe) during which no other handler runs, so     *)
(* that its intermediate points are states of the model.                   *)
(*                                                                         *)
(* Specifications: Spec (one connection, load endpoint, lifespan),         *)
(* SpecTwo and SpecRace (two connections at a time), SpecPersona (chat     *)
(* requests with an X-Persona-ID header and the PersonaManager of          *)
(* persona.py), SpecStore (calls of the PersonaManager methods),           *)
(* SpecManifest (runs of the manifest synchronizer of                      *)
(* update_models_manifest.py), SpecClassify (calls of its file name        *)
(* analyzer), SpecFormat (calls of the prompt formatter), SpecKey          *)
(* (generate_system_message requests and the key of the PersonaManager)    *)
(* and SpecBridge (WebSocket clients of direct_bridge.py).                 *)
(***************************************************************************)
EXTENDS Naturals, Integers, Sequences, FiniteSets, TLC

\* ------------------------------------------------------------------ bounds
MaxManifest == 2     \* entries of models.json
MaxFrags == 2        \* fragments one backend generation yields

\* ---------------------------------------------------------------- universe
None == "None"                       \* Python None (names, results)
Names == {"a", "b"}                  \* model names that may be catalogued
PresentFiles == {"a.gguf"}           \* backing files that exist in models_dir
ReqModels == Names \cup {""}         \* values of ChatRequest.model
Tokens == {"x", "y"}                 \* non-empty text fragments
Req == {1, 2}                        \* connections
Solo == {1}                          \* connections used when requests come one at a time

NoHandle == [id |-> 0, model |-> None]    \* current_model is None

VARIABLES
    manifest,             \* models.json: readable or not, and its entries
    files,                \* backing files present in models_dir
    Llama,                \* llama_cpp imported (FALSE: Llama is None)
    phase,                \* lifespan of the application
    available_models,     \* ModelEngine.available_models (insertion ordered)
    current_model,        \* ModelEngine.current_model (a handle or NoHandle)
    current_model_name,   \* ModelEngine.current_model_name
    is_ready,             \* ModelEngine.is_ready
    held,                 \* backend handles constructed and still referenced by the engine
    lpc,                  \* position inside load_model
    lframe,               \* frame of the running / last load_model call
    lresult,              \* what the last load_model call returned
    rpc,                  \* per request: position in chat_completions
    rq,                   \* per request: the resolved ChatRequest
    status,               \* per request: HTTP outcome
    loadCalls,            \* per request: load_model calls made by it
    spc,                  \* per request: position of stream_chat_response
    events,               \* per request: events yielded to the transport
    backendOut,           \* per request: fragments the backend generator yielded
    sgen,                 \* per request: handle the live backend generator runs on
    bstate,               \* per request: state of the backend token generator
    gcall,                \* frame of the running generate_response call
    persona_files,        \* persona records persisted under storage_path, one file per id
    personas,             \* PersonaManager.personas (the records cached in memory)
    loaded,               \* PersonaManager.loaded
    resolution,           \* frame of the last persona resolution of chat_completions
    pcall,                \* frame of the last call of a PersonaManager method
    habitat,              \* entries of the models directory the synchronizer scans
    mfile,                \* the manifest file as the synchronizer reads and writes it
    sync,                 \* frame of the running synchronize_cognitive_manifest call
    runs,                 \* the last run finished since the directory last changed
    profile,              \* what the last analyze_cognitive_signature call returned
    fmt,                  \* frame of the last _format_messages call
    openai_api_key,       \* PersonaManager.openai_api_key
    gsm,                  \* frames of the generate_system_message requests, and the key configured before them
    bridge,               \* DirectLLMBridge: model, model_name, is_ready
    ws                    \* per WebSocket connection: position and frame of handle_client

engineVars == <<available_models, current_model, current_model_name, is_ready, held>>
envVars == <<manifest, files, Llama, habitat, mfile, sync, runs, profile, fmt, openai_api_key, gsm, bridge, ws>>
loadVars == <<lpc, lframe, lresult>>
reqVars == <<rpc, rq, status, loadCalls>>
streamVars == <<spc, events, backendOut, sgen, bstate>>
personaVars == <<persona_files, personas, loaded, resolution, pcall>>
vars == <<manifest, files, Llama, phase, available_models, current_model,
          current_model_name, is_ready, held, lpc, lframe, lresult,
          rpc, rq, status, loadCalls, spc, events, backendOut, sgen, bstate, gcall,
          persona_files, personas, loaded, resolution, pcall, habitat, mfile, sync,
          runs, profile,
          fmt,
          openai_api_key,
          gsm,
          bridge,
          ws>>

\* ----------------------------------------------------------------- helpers
\* Snapshot of the EngineState plus catalog.
EngineState == [available_models |-> available_models,
                current_model |-> current_model,
                current_model_name |-> current_model_name,
                is_ready |-> is_ready,
                held |-> held]

\* Entries models.json may hold: "a" backed by a present file, "b" backed by
\* a present or by a missing one.
ManifestEntries == {[name |-> "a", file |-> "a.gguf"],
                    [name |-> "b", file |-> "a.gguf"],
                    [name |-> "b", file |-> "b.gguf"]}

RECURSIVE SeqsUpTo(_, _)
SeqsUpTo(S, n) ==
    IF n = 0 THEN {<<>>}
    ELSE LET shorter == SeqsUpTo(S, n - 1)
         IN shorter \cup {Append(s, e) : s \in {t \in shorter : Len(t) = n - 1}, e \in S}

\* Position of name n in catalog c, 0 when absent.
RECURSIVE IndexOf(_, _, _)
IndexOf(c, n, i) ==
    IF i > Len(c) THEN 0
    ELSE IF c[i].name = n THEN i ELSE IndexOf(c, n, i + 1)

InCatalog(c, n) == IndexOf(c, n, 1) # 0
ConfigOf(c, n) == c[IndexOf(c, n, 1)]

\* self.available_models[config.name] = config : a dict keeps the position
\* of an existing key and replaces its value.
DictSet(c, e) ==
    IF InCatalog(c, e.name)
    THEN [c EXCEPT ![IndexOf(c, e.name, 1)] = e]
    ELSE Append(c, e)

RECURSIVE LoadModelsManifest(_, _)
LoadModelsManifest(c, data) ==
    IF data = <<>> THEN c
    ELSE LoadModelsManifest(DictSet(c, Head(data)), Tail(data))

\* A handle id not used by any handle still referenced somewhere.
UsedIds == {h.id : h \in held} \cup {sgen[r].id : r \in Req} \cup {current_model.id}
FreshId == CHOOSE i \in 1..(Cardinality(UsedIds) + 1) : i \notin UsedIds


\* --------------------------------------------------------- persona store
\* Bound on the number of messages of a chat request.
MaxMessages == 2

\* A persisted persona record (persona.py 17-34), with the fields the request
\* resolver and validate() read.  Temperatures and token counts are kept as
\* the literals of the JSON document.
StoredPersonas ==
    {[id |-> "p1", name |-> "Terse", model |-> "b", system_message |-> "be terse",
      temperature |-> "0.2", max_tokens |-> "64"],
     [id |-> "p2", name |-> "Kind", model |-> "a", system_message |-> "be kind",
      temperature |-> "0.7", max_tokens |-> "512"]}

\* persona.py 111-226: the three built-in personas, all with model="".
DefaultPersonas ==
    <<[id |-> "assistant-default", name |-> "Default Assistant", model |-> "",
       system_message |-> "assistant", temperature |-> "0.7", max_tokens |-> "512"],
      [id |-> "coder-expert", name |-> "Code Expert", model |-> "",
       system_message |-> "coder", temperature |-> "0.7", max_tokens |-> "512"],
      [id |-> "creative-writer", name |-> "Creative Writer", model |-> "",
       system_message |-> "writer", temperature |-> "0.7", max_tokens |-> "512"]>>

NoPersona == [id |-> None, name |-> "", model |-> "", system_message |-> "",
              temperature |-> None, max_tokens |-> None]

\* The persona directories the service can find at start: every record in
\* them was written by save_persona, one file per id.
Stores == SUBSET StoredPersonas

\* X-Persona-ID values: the stored ids and one that is never stored.
PersonaIds == {p.id : p \in StoredPersonas} \cup {"px"}

\* persona.py 54-57: name, model and system_message are all truthy.
ValidateSkipped(p) == TRUE
ValidateIgnoresModel(p) == p.name # "" /\ p.system_message # ""
Validate(p) == p.name # "" /\ p.model # "" /\ p.system_message # ""

\* "d[persona.id] = persona" on a set of records keyed by id.
Put(S, p) == {q \in S : q.id # p.id} \cup {p}

\* persona.py 238-255: an invalid persona is neither cached nor written.
SavePersona(st, p) ==
    IF ~Validate(p) THEN st
    ELSE [st EXCEPT !.personas = Put(@, p), !.files = Put(@, p)]

\* persona.py 107-229: save each built-in persona in turn.
RECURSIVE CreateDefaultPersonas(_, _)
CreateDefaultPersonas(st, ps) ==
    IF ps = <<>> THEN st
    ELSE CreateDefaultPersonas(SavePersona(st, Head(ps)), Tail(ps))

\* "for file_path in persona_files: self.personas[persona.id] = persona".
RECURSIVE CacheAll(_, _)
CacheAll(cache, fs) ==
    IF fs = {} THEN cache
    ELSE LET f == CHOOSE f \in fs : TRUE
         IN CacheAll(Put(cache, f), fs \ {f})

\* persona.py 81-105: with no *.json file the defaults are created first;
\* then every file found is cached and the store is marked loaded.
LoadPersonas(st) ==
    LET seeded == IF st.files = {}
                  THEN CreateDefaultPersonas(st, DefaultPersonas)
                  ELSE st
    IN [seeded EXCEPT !.personas = CacheAll(@, seeded.files), !.loaded = TRUE]

\* persona.py 231-236: the store after the call and the persona it returns.
GetPersona(st, persona_id) ==
    LET after == IF ~st.loaded THEN LoadPersonas(st) ELSE st
        found == {q \in after.personas : q.id = persona_id}
    IN [store |-> after,
        persona |-> IF found = {} THEN NoPersona ELSE CHOOSE q \in found : TRUE]

\* persona.py 238-255: the store after the call and what it returns; when
\* open(file_path, "w") raises, the persona is cached already.
SaveOutcome(st, p, open_ok) ==
    IF ~Validate(p) THEN [store |-> st, result |-> "false"]
    ELSE IF open_ok THEN [store |-> SavePersona(st, p), result |-> "true"]
    ELSE [store |-> [st EXCEPT !.personas = Put(@, p)], result |-> "false"]

\* persona.py 260: "persona_id not in self.personas".
KnownAlways(st, persona_id) == TRUE
Known(st, persona_id) == \E q \in st.personas : q.id = persona_id

\* persona.py 257-275: the store after the call and what it returns; when
\* os.remove raises, the cached entry is deleted already.
DeleteOutcome(st, persona_id, remove_ok) ==
    IF ~Known(st, persona_id) THEN [store |-> st, result |-> "false"]
    ELSE LET dropped == [st EXCEPT !.personas = {q \in @ : q.id # persona_id}]
         IN IF \A q \in st.files : q.id # persona_id
            THEN [store |-> dropped, result |-> "true"]
            ELSE IF remove_ok
            THEN [store |-> [dropped EXCEPT !.files = {q \in @ : q.id # persona_id}],
                  result |-> "true"]
            ELSE [store |-> dropped, result |-> "false"]

\* Personas handed to save_persona: the stored ones, an edited one, and three
\* that validate() rejects (one of them under the id of a stored persona).
SavedPersonas ==
    StoredPersonas
    \cup {[id |-> "p1", name |-> "Terse", model |-> "b", system_message |-> "be brief",
          temperature |-> "0.2", max_tokens |-> "64"],
         [id |-> "p1", name |-> "Terse", model |-> "", system_message |-> "be terse",
          temperature |-> "0.2", max_tokens |-> "64"],
         [id |-> "p3", name |-> "", model |-> "a", system_message |-> "be new",
          temperature |-> "0.7", max_tokens |-> "512"],
         [id |-> "p2", name |-> "Kind", model |-> "a", system_message |-> "",
          temperature |-> "0.7", max_tokens |-> "512"]}

NoStoreCall == [op |-> None, persona_id |-> None, persona |-> NoPersona,
                before |-> [files |-> {}, personas |-> {}, loaded |-> FALSE],
                result |-> None]

\* ------------------------------------------------------- request resolver
\* What a client can put in the JSON body of a chat request.  A field with a
\* default can be left out (Omitted), sent as null (None) or given a value.
Omitted == "omitted"
Roles == {"system", "user"}
Contents == {"", "hi"}
Messages == [role : Roles, content : Contents]
SentTemperatures == {Omitted, None, "0.9"}
SentMaxTokens == {Omitted, None, "128"}

\* api.py 36-37: Field(512) and Field(0.7).
DefaultMaxTokens == "512"
DefaultTemperature == "0.7"

\* pydantic: a field left out takes the default of its Field; null stays None.
ParseField(sent, default) == IF sent = Omitted THEN default ELSE sent

\* api.py 32-39: the ChatRequest object built from the body.
ParseRequest(body) ==
    [model |-> body.model,
     messages |-> body.messages,
     max_tokens |-> ParseField(body.max_tokens, DefaultMaxTokens),
     temperature |-> ParseField(body.temperature, DefaultTemperature)]

\* api.py 122-123.
OverlayModelAlways(model, p) == p.model
OverlayModel(model, p) == IF model = "" THEN p.model ELSE model

\* api.py 126-127 and 130-131.
OverlayField(value, of_persona) == IF value = None THEN of_persona ELSE value

\* api.py 134-142.
OverlayMessagesAlwaysInsert(messages, p) ==
    IF p.system_message # "" /\ Len(messages) > 0
    THEN <<[role |-> "system", content |-> p.system_message]>> \o messages
    ELSE messages
OverlayMessagesOverrides(messages, p) ==
    IF p.system_message # "" /\ Len(messages) > 0
    THEN IF messages[1].role # "system"
         THEN <<[role |-> "system", content |-> p.system_message]>> \o messages
         ELSE [messages EXCEPT ![1].content = p.system_message]
    ELSE messages
OverlayMessages(messages, p) ==
    IF p.system_message # "" /\ Len(messages) > 0
    THEN IF messages[1].role # "system"
         THEN <<[role |-> "system", content |-> p.system_message]>> \o messages
         ELSE IF messages[1].content = ""
         THEN [messages EXCEPT ![1].content = p.system_message]
         ELSE messages
    ELSE messages

\* api.py 120-142: the request after "if persona:".
ApplyPersona(request, p) ==
    IF p = NoPersona THEN request
    ELSE [model |-> OverlayModel(request.model, p),
          messages |-> OverlayMessages(request.messages, p),
          max_tokens |-> OverlayField(request.max_tokens, p.max_tokens),
          temperature |-> OverlayField(request.temperature, p.temperature)]

NoBody == [model |-> None, messages |-> <<>>, max_tokens |-> None, temperature |-> None]
NoResolution == [r |-> 0, persona_id |-> None, body |-> NoBody, persona |-> NoPersona,
                 resolved |-> NoBody, was_loaded |-> FALSE]


\* ------------------------------------------------ strings of file names
\* The characters of file and display names in code point order.
CodePoints == "-.0123456789ABCDEFGHIJKLMNOPQRSTUVWXYZ_abcdefghijklmnopqrstuvwxyz"

Char(s, i) == IF i >= 1 /\ i <= Len(s) THEN SubSeq(s, i, i) ELSE ""
Sub(s, i, j) == IF i >= 1 /\ j <= Len(s) THEN SubSeq(s, i, j) ELSE ""
CharsOf(s) == {Char(s, i) : i \in 1..Len(s)}

\* str.lower() on one character and on a string.
LowerChar(c) ==
    LET upper == "ABCDEFGHIJKLMNOPQRSTUVWXYZ"
        lower == "abcdefghijklmnopqrstuvwxyz"
    IN IF c \in CharsOf(upper)
       THEN Char(lower, CHOOSE i \in 1..Len(upper) : Char(upper, i) = c)
       ELSE c
RECURSIVE Lower(_)
Lower(s) == IF s = "" THEN "" ELSE LowerChar(Head(s)) \o Lower(Tail(s))

\* "a < b" on strings, as list.sort and sorted compare them.
RECURSIVE StrLess(_, _)
StrLess(a, b) ==
    LET ord(c) == CHOOSE i \in 1..Len(CodePoints) : Char(CodePoints, i) = c
    IN IF b = "" THEN FALSE
       ELSE IF a = "" THEN TRUE
       ELSE IF Head(a) = Head(b) THEN StrLess(Tail(a), Tail(b))
       ELSE ord(Head(a)) < ord(Head(b))

\* re.search of an alternation of literals: one of them occurs in s.
Occurs(w, s) == \E i \in 1..Len(s) : Sub(s, i, i + Len(w) - 1) = w
EndsWith(s, w) == Len(s) >= Len(w) /\ SubSeq(s, Len(s) - Len(w) + 1, Len(s)) = w

\* pathlib stem: the name without its last suffix.
Stem(s) ==
    LET dots == {i \in 1..Len(s) : Char(s, i) = "."}
        last == IF dots = {} THEN 0 ELSE CHOOSE i \in dots : \A j \in dots : j <= i
    IN IF last > 1 /\ last < Len(s) THEN SubSeq(s, 1, last - 1) ELSE s

\* First position from i on whose character is not one of chars.
RECURSIVE RunEnd(_, _, _)
RunEnd(chars, s, i) == IF Char(s, i) \in chars THEN RunEnd(chars, s, i + 1) ELSE i

\* Where a match of a pattern of _extract_neural_identity that starts at i
\* ends (first position after it), 0 when there is none.
MatchEnd(pattern, s, i) ==
    LET digit == CharsOf("0123456789")
        word == CharsOf(CodePoints) \ {"-", "."}
    IN CASE pattern = "\\.q\\d+_\\w+" ->                    \* re.IGNORECASE
              LET d == RunEnd(digit, s, i + 2)
                  w == RunEnd(word, s, d + 1)
              IN IF /\ Char(s, i) = "."
                    /\ LowerChar(Char(s, i + 1)) = "q"
                    /\ d > i + 2
                    /\ Char(s, d) = "_"
                    /\ w > d + 1
                 THEN w ELSE 0
         [] pattern = "-\\d+b(-|$)" ->
              LET d == RunEnd(digit, s, i + 1)
              IN IF Char(s, i) = "-" /\ d > i + 1 /\ Char(s, d) = "b"
                 THEN IF Char(s, d + 1) = "-" THEN d + 2
                      ELSE IF d = Len(s) THEN d + 1 ELSE 0
                 ELSE 0
         [] pattern = "-(q\\d+|fp\\d+)(-|$)" ->             \* re.IGNORECASE
              LET k == IF LowerChar(Char(s, i + 1)) = "q" THEN i + 2
                       ELSE IF Lower(Sub(s, i + 1, i + 2)) = "fp" THEN i + 3 ELSE 0
                  d == RunEnd(digit, s, k)
              IN IF Char(s, i) = "-" /\ k # 0 /\ d > k
                 THEN IF Char(s, d) = "-" THEN d + 1
                      ELSE IF d = Len(s) + 1 THEN d ELSE 0
                 ELSE 0

\* re.sub(pattern, '', s): drop every match, scanning from the left.
RECURSIVE DropMatches(_, _, _)
DropMatches(pattern, s, i) ==
    IF i > Len(s) THEN ""
    ELSE IF MatchEnd(pattern, s, i) # 0 THEN DropMatches(pattern, s, MatchEnd(pattern, s, i))
    ELSE Char(s, i) \o DropMatches(pattern, s, i + 1)

\* re.sub(r'[-_\.]+', '_', s): every run of separators becomes one "_".
RECURSIVE JoinSeparators(_, _)
JoinSeparators(s, i) ==
    IF i > Len(s) THEN ""
    ELSE IF Char(s, i) \in {"-", "_", "."}
    THEN IF Char(s, i + 1) \in {"-", "_", "."} THEN JoinSeparators(s, i + 1)
         ELSE "_" \o JoinSeparators(s, i + 1)
    ELSE Char(s, i) \o JoinSeparators(s, i + 1)

\* str.strip('_').
RECURSIVE Strip(_)
Strip(s) ==
    IF s = "" THEN s
    ELSE IF Head(s) = "_" THEN Strip(Tail(s))
    ELSE IF Char(s, Len(s)) = "_" THEN Strip(SubSeq(s, 1, Len(s) - 1))
    ELSE s

\* update_models_manifest.py 113-127.
ExtractNeuralIdentity(filename) ==
    LET bare == IF EndsWith(filename, ".gguf") THEN SubSeq(filename, 1, Len(filename) - 5)
                ELSE IF EndsWith(filename, ".bin") THEN SubSeq(filename, 1, Len(filename) - 4)
                ELSE IF EndsWith(filename, ".safetensors")
                THEN SubSeq(filename, 1, Len(filename) - 12)
                ELSE filename
        no_quant == DropMatches("\\.q\\d+_\\w+", bare, 1)
        no_size == DropMatches("-\\d+b(-|$)", no_quant, 1)
        no_precision == DropMatches("-(q\\d+|fp\\d+)(-|$)", no_size, 1)
    IN Strip(JoinSeparators(no_precision, 1))

\* ------------------------------------- update_models_manifest.py: classify
\* COGNITIVE_PATTERNS (lines 44-80), in the order of the dict: the literals
\* of the alternation, the tags and the description of each rule.
CognitivePatterns ==
    <<[words |-> {"phi", "reasoning", "logic", "math"},
       tags |-> {"reasoning", "logic", "analytical"},
       description |-> "Logic-oriented neural architecture with enhanced reasoning pathways"],
      [words |-> {"code", "programming", "dev"},
       tags |-> {"code", "technical", "structured"},
       description |-> "Code-specialized cognitive model with technical reasoning patterns"],
      [words |-> {"chat", "instruct", "dolphin", "assistant"},
       tags |-> {"conversational", "adaptive", "empathetic"},
       description |-> "Conversational AI with strong instruction-following behavioral patterns"],
      [words |-> {"creative", "art", "story", "write"},
       tags |-> {"creative", "imaginative", "expressive"},
       description |-> "Creative neural architecture optimized for artistic expression"],
      [words |-> {"tiny", "mini", "small", "1b", "2b"},
       tags |-> {"efficient", "compact", "responsive"},
       description |-> "Compact neural architecture optimized for speed and efficiency"],
      [words |-> {"large", "big", "13b", "30b", "70b"},
       tags |-> {"comprehensive", "knowledgeable", "versatile"},
       description |-> "Large-scale neural architecture with extensive knowledge patterns"]>>

\* Lines 95-96: the rules k with "re.search(pattern, base_name)".
MatchingRules(base_name) ==
    {k \in 1..Len(CognitivePatterns) :
        \E w \in CognitivePatterns[k].words : Occurs(w, base_name)}

\* Lines 101-104: description_fragments[0], or the generic description.
LastDescription(base_name) ==
    IF MatchingRules(base_name) = {}
    THEN "General-purpose neural architecture with balanced cognitive capabilities"
    ELSE CognitivePatterns[CHOOSE k \in MatchingRules(base_name) :
                              \A j \in MatchingRules(base_name) : j <= k].description
PrimaryDescription(base_name) ==
    IF MatchingRules(base_name) = {}
    THEN "General-purpose neural architecture with balanced cognitive capabilities"
    ELSE CognitivePatterns[CHOOSE k \in MatchingRules(base_name) :
                              \A j \in MatchingRules(base_name) : k <= j].description

\* sorted(list(detected_tags)).
RECURSIVE SortedStrings(_)
SortedStrings(S) ==
    IF S = {} THEN <<>>
    ELSE LET least == CHOOSE a \in S : \A b \in S : a = b \/ StrLess(a, b)
         IN <<least>> \o SortedStrings(S \ {least})

\* Lines 82-111: the CognitiveProfile of a file name.
AnalyzeCognitiveSignature(filename) ==
    LET base_name == Lower(Stem(filename))
    IN [name |-> ExtractNeuralIdentity(base_name),
        file |-> filename,
        description |-> PrimaryDescription(base_name),
        tags |-> SortedStrings({"neural", "local"}
                               \cup UNION {CognitivePatterns[k].tags :
                                               k \in MatchingRules(base_name)})]

NoProfile == [name |-> None, file |-> None, description |-> None, tags |-> <<>>]

\* File names put to the analyzer: two words of the rules (or of none), with
\* or without a size marker and a quantisation marker.
FileNames ==
    LET words == {"phi", "Code", "chat", "story", "tiny", "large", "plain", "MATH"}
        sizes == {"", "-1b", "-7b"}
        quants == {"", ".Q4_K_M"}
    IN {a \o "-" \o b \o z \o q \o ".gguf" :
           a \in words, b \in words, z \in sizes, q \in quants}
       \cup {"tinymodel-1b.Q4_K_M.gguf"}

\* ----------------------------------- update_models_manifest.py: reconcile
\* What the models directory can hold: model files, a zero-length model
\* file and a file that is no model.
DirEntries ==
    {[name |-> "tinymodel-1b.Q4_K_M.gguf", size |-> "some"],
     [name |-> "tinymodel-2b.Q4_K_M.gguf", size |-> "some"],
     [name |-> "plain.gguf", size |-> "some"],
     [name |-> "empty-chat.gguf", size |-> "zero"],
     [name |-> "notes.txt", size |-> "some"]}

\* Lines 140-154: glob("*.gguf"), regular files of non-zero size.
Discover(dir) == {e.name : e \in {d \in dir : EndsWith(d.name, ".gguf") /\ d.size # "zero"}}

\* Descriptors a manifest on disk can hold before the first run: one written
\* by hand for a file of the directory, and one whose file is gone.
CustomProfile == [name |-> "zz-custom", file |-> "plain.gguf",
                  description |-> "mine", tags |-> <<"hand">>]
GoneProfile == [name |-> "gone", file |-> "gone.gguf",
                description |-> "old", tags |-> <<"neural">>]

\* The manifest file: absent, present with content json.load rejects, or
\* present with a list of descriptors.
Absent == [state |-> "absent", data |-> <<>>]
Unparsable == [state |-> "unparsable", data |-> <<>>]   \* also: truncated by a write
Written(data) == [state |-> "ok", data |-> data]
InitialManifests ==
    {Absent, Unparsable, Written(<<>>), Written(<<CustomProfile>>),
     Written(<<CustomProfile, GoneProfile>>),
     Written(<<AnalyzeCognitiveSignature("plain.gguf")>>)}

\* Lines 156-181: a missing file and a file that does not parse both give
\* the empty list (the exception is logged inside).
LoadExistingManifest(m) == IF m.state = "ok" THEN m.data ELSE <<>>

FilesOf(profiles) == {profiles[i].file : i \in 1..Len(profiles)}

\* list.sort(key=lambda p: p.name) is stable: a profile goes behind every
\* profile already placed whose name is not greater.
RECURSIVE InsertByName(_, _)
InsertByName(sorted, p) ==
    IF sorted = <<>> THEN <<p>>
    ELSE IF StrLess(p.name, sorted[1].name) THEN <<p>> \o sorted
    ELSE <<sorted[1]>> \o InsertByName(Tail(sorted), p)
RECURSIVE SortByName(_)
SortByName(profiles) ==
    IF profiles = <<>> THEN <<>>
    ELSE InsertByName(SortByName(SubSeq(profiles, 1, Len(profiles) - 1)),
                      profiles[Len(profiles)])

\* Lines 204-210: the existing profiles kept.
KeepAll(preserve_existing, existing, discovered) == existing
KeepExisting(preserve_existing, existing, discovered) ==
    IF preserve_existing
    THEN SelectSeq(existing, LAMBDA p : p.file \in discovered)
    ELSE <<>>

\* The orders in which "for new_file in new_architectures" can visit a set.
Orders(S) == {o \in [1..Cardinality(S) -> S] : \A i, j \in 1..Cardinality(S) : o[i] = o[j] => i = j}

\* analyze_cognitive_signature of every file name of the directory.
AnalysedProfiles ==
    [filename \in {e.name : e \in DirEntries} \cup FileNames
        |-> AnalyzeCognitiveSignature(filename)]

\* Lines 82-111: one call of the analyzer.
AnalyzeCall(filename) ==
    /\ profile' = AnalysedProfiles[filename]
    /\ UNCHANGED <<manifest, files, Llama, ws, bridge, gsm, openai_api_key, fmt, habitat, mfile, sync, runs, personaVars, phase,
                   engineVars, loadVars, reqVars, streamVars, gcall>>

\* Lines 189-222: the profiles to write, new_order being the order in which
\* the set of new files is visited.
UpdatedProfiles(preserve_existing, discovered, existing, new_order) ==
    SortByName(KeepExisting(preserve_existing, existing, discovered)
               \o [i \in 1..Len(new_order) |-> AnalysedProfiles[new_order[i]]])

NoSync == [pc |-> "idle", preserve_existing |-> FALSE, before |-> Absent,
           discovered |-> {}, new_architectures |-> {}, orphaned_entries |-> {},
           updated_profiles |-> <<>>, failure |-> None, result |-> None]

\* ------------------------------------------------------------ initial state
\* The manifest file, the model directory and the llama_cpp import are the
\* environment of the process; ModelEngine.__init__ gives the engine fields.
Unreadable == [ok |-> FALSE, data |-> <<>>]      \* open / json.load raises
Manifests == {[ok |-> TRUE, data |-> d] : d \in SeqsUpTo(ManifestEntries, MaxManifest)}
             \cup {Unreadable}

NoCaller == [kind |-> None, r |-> 0]

NoFrame == [name |-> None, caller |-> NoCaller,
            pre |-> [available_models |-> <<>>, current_model |-> NoHandle,
                     current_model_name |-> None, is_ready |-> FALSE, held |-> {}],
            new |-> NoHandle, unknown |-> FALSE, noLlama |-> FALSE,
            fileMissing |-> FALSE, threw |-> FALSE]

NoRequest == [model |-> None, stream |-> FALSE, direct_mode |-> FALSE]

NoCall == [caller |-> NoCaller, stream |-> FALSE, result |-> None, invoked |-> FALSE,
           pre |-> NoFrame.pre]

InitEngine ==
    /\ manifest \in Manifests
    /\ files = PresentFiles
    /\ Llama \in BOOLEAN
    /\ phase = "constructed"
    /\ available_models = <<>>
    /\ current_model = NoHandle
    /\ current_model_name = None
    /\ is_ready = FALSE
    /\ held = {}
    /\ lpc = "idle"
    /\ lframe = NoFrame
    /\ lresult = None
    /\ rpc = [r \in Req |-> "new"]
    /\ rq = [r \in Req |-> NoRequest]
    /\ status = [r \in Req |-> None]
    /\ loadCalls = [r \in Req |-> 0]
    /\ spc = [r \in Req |-> None]
    /\ events = [r \in Req |-> <<>>]
    /\ backendOut = [r \in Req |-> <<>>]
    /\ sgen = [r \in Req |-> NoHandle]
    /\ bstate = [r \in Req |-> None]
    /\ gcall = NoCall
    /\ fmt = [called |-> FALSE, messages |-> <<>>, parts |-> <<>>, prompt |-> "",
              engine |-> NoFrame.pre, first_prompt |-> "", first_engine |-> NoFrame.pre]
    \* DirectLLMBridge.__init__ (direct_bridge.py 26-31): no model, no client.
    /\ bridge = [model |-> None, model_name |-> None, is_ready |-> FALSE]
    /\ ws = [c \in Req |-> [pc |-> "new", command |-> None, events |-> <<>>,
                            out |-> <<>>, generated_text |-> "",
                            raised |-> FALSE, gone |-> FALSE]]

\* PersonaManager.__init__ (persona.py 77-78): nothing cached, not loaded.
InitPersonaManager ==
    /\ personas = {}
    /\ loaded = FALSE
    /\ resolution = NoResolution
    /\ pcall = NoStoreCall
    /\ openai_api_key = ""
    /\ gsm = [q \in Req |-> [pc |-> "idle", api_key |-> None, original |-> None,
                              used |-> None, configured |-> ""]]

\* No run of the synchronizer has started.
InitSynchronizer ==
    /\ sync = NoSync
    /\ runs = <<>>
    /\ profile = NoProfile

\* A fresh installation: the persona directory holds no record, and the
\* synchronizer has nothing to scan.
Init ==
    /\ InitEngine
    /\ InitPersonaManager
    /\ persona_files = {}
    /\ InitSynchronizer
    /\ habitat = {}
    /\ mfile = Absent

\* No load_model and no generate_response call is running.
Idle == lpc = "idle" /\ gcall = NoCall

\* ------------------------------------------------- ModelEngine.load_model
\* "if self.current_model: del self.current_model; self.current_model = None"
\* applied to the pair (current_model, handles the engine references).
UnloadSkipped(cm, h) == [current_model |-> cm, held |-> h]
Unload(cm, h) ==
    IF cm # NoHandle
    THEN [current_model |-> NoHandle, held |-> h \ {cm}]
    ELSE [current_model |-> cm, held |-> h]

\* "except Exception as e: ... return False" of load_model.
LoadExceptionPropagates(e) == "raised"
LoadOnException(e) == "false"

\* The caller evaluates "await model_engine.load_model(model_name)".
LoadCall(n, who) ==
    /\ lpc' = "entry"
    /\ lframe' = [NoFrame EXCEPT !.name = n, !.caller = who, !.pre = EngineState]
    /\ lresult' = None

\* The unload of lines 92-95 comes after the two early returns (83-89): it
\* runs only when the call proceeds into the try block.
ReleaseBeforeLookup(proceeds, cm, h) == Unload(cm, h)
ReleaseSkipped(proceeds, cm, h) == [current_model |-> cm, held |-> h]
ReleaseForLoad(proceeds, cm, h) ==
    IF proceeds THEN Unload(cm, h) ELSE [current_model |-> cm, held |-> h]

\* Lines 83-102: the two early returns before the try block, then the
\* release of the current model, then the check of the backing file.
LoadEntry ==
    /\ lpc = "entry"
    /\ LET known == InCatalog(available_models, lframe.name)
           u == ReleaseForLoad(known /\ Llama, current_model, held)
       IN /\ current_model' = u.current_model
          /\ held' = u.held
          /\ IF ~known
             THEN /\ lpc' = "return"
                  /\ lresult' = "false"
                  /\ lframe' = [lframe EXCEPT !.unknown = TRUE]
             ELSE IF ~Llama
             THEN /\ lpc' = "return"
                  /\ lresult' = "false"
                  /\ lframe' = [lframe EXCEPT !.noLlama = TRUE]
             ELSE IF ConfigOf(available_models, lframe.name).file \notin files
             THEN /\ lpc' = "return"
                  /\ lresult' = "false"
                  /\ lframe' = [lframe EXCEPT !.fileMissing = TRUE]
             ELSE /\ lpc' = "construct"
                  /\ UNCHANGED <<lresult, lframe>>
    /\ UNCHANGED <<envVars, personaVars, phase, available_models, current_model_name, is_ready,
                   reqVars, streamVars, gcall>>

\* Lines 107-113: Llama(model_path=...) either returns a new handle or throws;
\* a throw is handled at lines 119-121.
LoadConstruct ==
    /\ lpc = "construct"
    /\ \/ /\ held' = held \cup {[id |-> FreshId, model |-> lframe.name]}
          /\ lframe' = [lframe EXCEPT !.new = [id |-> FreshId, model |-> lframe.name]]
          /\ lpc' = "assign"
          /\ UNCHANGED lresult
       \/ /\ lresult' = LoadOnException("backend")
          /\ lframe' = [lframe EXCEPT !.threw = TRUE]
          /\ lpc' = "return"
          /\ UNCHANGED held
    /\ UNCHANGED <<envVars, personaVars, phase, available_models, current_model, current_model_name,
                   is_ready, reqVars, streamVars, gcall>>

\* Lines 107, 115-117: bind the new handle (the previous referent of the
\* attribute, if any, loses the engine's reference), record the name, return True.
LoadAssign ==
    /\ lpc = "assign"
    /\ current_model' = lframe.new
    /\ held' = (held \ {current_model}) \cup {lframe.new}
    /\ current_model_name' = lframe.name
    /\ lresult' = "true"
    /\ lpc' = "return"
    /\ UNCHANGED <<envVars, personaVars, phase, available_models, is_ready, lframe, reqVars,
                   streamVars, gcall>>


\* ------------------------------------------------ ModelEngine.initialize
\* Lines 52-59 (with _load_models_manifest, lines 66-79): read the manifest;
\* an unreadable manifest raises and the lifespan manager exits the process
\* (main.py 56-58); otherwise load the first catalogued model, if any.
Initialize ==
    /\ phase = "constructed"
    /\ Idle
    /\ IF ~manifest.ok
       THEN /\ phase' = "failed"
            /\ UNCHANGED <<engineVars, loadVars>>
       ELSE LET c == LoadModelsManifest(available_models, manifest.data)
            IN /\ available_models' = c
               /\ IF c # <<>>
                  THEN /\ phase' = "initializing"
                       /\ lpc' = "entry"
                       /\ lframe' = [NoFrame EXCEPT
                                        !.name = c[1].name,
                                        !.caller = [kind |-> "initialize", r |-> 0],
                                        !.pre = [EngineState EXCEPT !.available_models = c]]
                       /\ lresult' = None
                       /\ UNCHANGED is_ready
                  ELSE /\ phase' = "serving"
                       /\ is_ready' = TRUE
                       /\ UNCHANGED loadVars
               /\ UNCHANGED <<current_model, current_model_name, held>>
    /\ UNCHANGED <<envVars, personaVars, reqVars, streamVars, gcall>>

\* Lines 59-64: load_model has returned; its result is not looked at.
InitializeReturn ==
    /\ phase = "initializing"
    /\ lpc = "return"
    /\ lframe.caller.kind = "initialize"
    /\ lpc' = "idle"
    /\ lframe' = NoFrame
    /\ lresult' = None
    /\ IF lresult = "raised"
       THEN /\ phase' = "failed"
            /\ UNCHANGED is_ready
       ELSE /\ phase' = "serving"
            /\ is_ready' = TRUE
    /\ UNCHANGED <<envVars, personaVars, available_models, current_model, current_model_name, held,
                   reqVars, streamVars, gcall>>

\* -------------------------------------------------- ModelEngine.shutdown
\* Lines 256-262, called by the lifespan manager (main.py 60-64) once the
\* server has stopped serving (no response is in flight any more).
Shutdown ==
    /\ phase \in {"serving", "failed", "stopped"}
    /\ Idle
    /\ \A r \in Req : rpc[r] = "new"
    /\ LET u == Unload(current_model, held)
       IN /\ current_model' = u.current_model
          /\ held' = u.held
    /\ is_ready' = FALSE
    /\ phase' = "stopped"
    /\ UNCHANGED <<envVars, personaVars, available_models, current_model_name, loadVars, reqVars,
                   streamVars, gcall>>

\* ------------------------------------- POST /v1/models/{model_name}/load
\* api.py 236-251: the endpoint calls load_model with the path parameter.
LoadEndpoint(n) ==
    /\ phase = "serving"
    /\ Idle
    /\ LoadCall(n, [kind |-> "endpoint", r |-> 0])
    /\ UNCHANGED <<envVars, personaVars, phase, engineVars, reqVars, streamVars, gcall>>

\* api.py 253-269: 200 on success, 400 on False, 500 on an exception.
LoadEndpointReturn ==
    /\ lpc = "return"
    /\ lframe.caller.kind = "endpoint"
    /\ lpc' = "idle"
    /\ lframe' = NoFrame
    /\ lresult' = None
    /\ UNCHANGED <<envVars, personaVars, phase, engineVars, reqVars, streamVars, gcall>>


\* --------------------------------------- ModelEngine.generate_response
\* Line 131: "if not self.current_model: raise ValueError('No model loaded')".
GenerateGuardMissing(cm) == FALSE
GenerateNotReady(cm) == cm = NoHandle

\* Lines 131-145 with _generate_complete_response (165-194): what a call can
\* come to and whether the backend was invoked.  With stream=True the result
\* is the generator object of _generate_streaming_response, whose body has
\* not run yet.  Calling a None handle raises TypeError before any backend runs.
GenerateOutcomes(cm, stream) ==
    IF GenerateNotReady(cm)
    THEN {[result |-> "NotReady", invoked |-> FALSE]}
    ELSE IF stream
    THEN {[result |-> "generator", invoked |-> FALSE]}
    ELSE IF cm = NoHandle
    THEN {[result |-> "raised", invoked |-> FALSE]}
    ELSE {[result |-> "response", invoked |-> TRUE],
          [result |-> "raised", invoked |-> TRUE]}

\* The caller evaluates "await model_engine.generate_response(..., stream)";
\* the call has no suspension point and its frame lasts until the caller
\* has taken the result.
GenerateCall(who, stream) ==
    \E o \in GenerateOutcomes(current_model, stream) :
        gcall' = [caller |-> who, stream |-> stream, result |-> o.result,
                  invoked |-> o.invoked, pre |-> EngineState]

\* A client of the engine calls the public method
\* generate_response(messages, ..., stream) and takes its result.
GenerateResponse(r, stream) ==
    /\ rpc[r] = "new"
    /\ phase = "serving"
    /\ Idle
    /\ GenerateCall([kind |-> "api", r |-> r], stream)
    /\ rpc' = [rpc EXCEPT ![r] = "generating"]
    /\ UNCHANGED <<envVars, personaVars, phase, engineVars, loadVars, rq, status, loadCalls, streamVars>>

GenerateReturn(r) ==
    /\ rpc[r] = "generating"
    /\ gcall.caller = [kind |-> "api", r |-> r]
    /\ gcall' = NoCall
    /\ rpc' = [rpc EXCEPT ![r] = "new"]
    /\ UNCHANGED <<envVars, personaVars, phase, engineVars, loadVars, rq, status, loadCalls, streamVars>>

\* ------------------------------------- ModelEngine._format_messages
\* Message lists handed to the formatter: up to two messages with the three
\* roles it names, a role it does not name, an empty content and a message
\* without a role key.
PromptMessages ==
    LET msgs == {[role |-> r, content |-> "hi"] : r \in {"system", "user", "assistant", "tool"}}
                \cup {[role |-> "user", content |-> ""], [content |-> "yo"]}
    IN {<<>>} \cup {<<a>> : a \in msgs} \cup {<<a, b>> : a \in msgs, b \in msgs}

\* model_loader.py 149-162: formatted_parts when the join is reached.
FormattedParts(messages) ==
    LET RECURSIVE Lines(_)
        Lines(ms) ==
            IF ms = <<>> THEN <<>>
            ELSE LET message == Head(ms)
                     role == IF "role" \in DOMAIN message THEN message.role ELSE "user"
                     content == IF "content" \in DOMAIN message
                                THEN message.content ELSE ""
                 IN (IF role = "system" THEN <<"System: " \o content>>
                     ELSE IF role = "user" THEN <<"Human: " \o content>>
                     ELSE IF role = "assistant" THEN <<"Assistant: " \o content>>
                     ELSE <<>>)
                    \o Lines(Tail(ms))
    IN Lines(messages) \o <<"Assistant:">>

\* model_loader.py 147-163: "\n\n".join(formatted_parts).
FormatMessagesStateful(messages) ==
    IF current_model_name = None THEN "Assistant:"
    ELSE current_model_name \o "\n\n" \o "Assistant:"
FormatMessagesOneNewline(messages) ==
    LET RECURSIVE Join(_)
        Join(ps) == IF Len(ps) = 1 THEN ps[1] ELSE ps[1] \o "\n" \o Join(Tail(ps))
    IN Join(FormattedParts(messages))
FormatMessages(messages) ==
    LET RECURSIVE Join(_)
        Join(ps) == IF Len(ps) = 1 THEN ps[1] ELSE ps[1] \o "\n\n" \o Join(Tail(ps))
    IN Join(FormattedParts(messages))

\* One call of the formatter; the frame keeps what the first of a row of
\* calls with the same message list returned, and the engine it ran on.
FormatCall(messages) ==
    /\ Idle
    /\ fmt' = [called |-> TRUE, messages |-> messages,
               parts |-> FormattedParts(messages),
               prompt |-> FormatMessages(messages),
               engine |-> EngineState,
               first_prompt |-> IF fmt.called /\ fmt.messages = messages
                                THEN fmt.first_prompt ELSE FormatMessages(messages),
               first_engine |-> IF fmt.called /\ fmt.messages = messages
                                THEN fmt.first_engine ELSE EngineState]
    /\ UNCHANGED <<manifest, files, Llama, ws, bridge, gsm, openai_api_key, habitat, mfile, sync, runs, profile, personaVars,
                   phase, engineVars, loadVars, reqVars, streamVars, gcall>>

\* ----------------------------------------- POST /v1/chat/completions
\* api.py 145: "if request.model != model_engine.current_model_name".
AlwaysLoad(m, name) == TRUE
NeedsLoad(m, name) == m # name

\* api.py 154-182: build the response once the model is resolved.  A streamed
\* request hands the (not yet started) generator to the transport; a
\* non-streamed one calls generate_response(stream=False).
ChatRespond(r, stream) ==
    IF stream
    THEN /\ status' = [status EXCEPT ![r] = "stream"]
         /\ spc' = [spc EXCEPT ![r] = "created"]
         /\ rpc' = [rpc EXCEPT ![r] = "responded"]
         /\ UNCHANGED gcall
    ELSE /\ GenerateCall([kind |-> "chat", r |-> r], FALSE)
         /\ rpc' = [rpc EXCEPT ![r] = "generating"]
         /\ UNCHANGED <<status, spc>>

\* api.py 106-110 and 144-182: the handler around the persona overlay, m
\* being request.model after it.
ChatDispatch(r, m, stream, direct_mode) ==
    /\ rpc[r] = "new"
    /\ phase = "serving"
    /\ Idle
    /\ rq' = [rq EXCEPT ![r] = [model |-> m, stream |-> stream,
                                direct_mode |-> direct_mode]]
    /\ IF ~is_ready
       THEN /\ status' = [status EXCEPT ![r] = "503"]
            /\ rpc' = [rpc EXCEPT ![r] = "responded"]
            /\ UNCHANGED <<loadVars, loadCalls, spc, gcall>>
       ELSE IF NeedsLoad(m, current_model_name)
       THEN /\ LoadCall(m, [kind |-> "chat", r |-> r])
            /\ loadCalls' = [loadCalls EXCEPT ![r] = @ + 1]
            /\ rpc' = [rpc EXCEPT ![r] = "loading"]
            /\ UNCHANGED <<status, spc, gcall>>
       ELSE /\ ChatRespond(r, stream)
            /\ UNCHANGED <<loadVars, loadCalls>>
    /\ UNCHANGED <<envVars, phase, engineVars, events, backendOut, sgen, bstate>>

\* api.py 98-182 for a request without an X-Persona-ID header (or an empty
\* one): "if persona_id:" is skipped and request.model is the model sent.
ChatCompletions(r, m, stream, direct_mode) ==
    /\ ChatDispatch(r, m, stream, direct_mode)
    /\ UNCHANGED personaVars

\* api.py 98-182 for a request with X-Persona-ID: persona_id.  The readiness
\* check comes first (503 before any lookup); then get_persona, which loads
\* the store on first use, the overlay of the persona on the parsed request,
\* and the rest of the handler on the resolved request.
ChatCompletionsPersona(r, persona_id, body, stream) ==
    LET request == ParseRequest(body)
        got == GetPersona([files |-> persona_files, personas |-> personas,
                           loaded |-> loaded], persona_id)
        resolved == ApplyPersona(request, got.persona)
    IN IF ~is_ready
       THEN /\ ChatDispatch(r, request.model, stream, FALSE)
            /\ UNCHANGED personaVars
       ELSE /\ ChatDispatch(r, resolved.model, stream, FALSE)
            /\ persona_files' = got.store.files
            /\ personas' = got.store.personas
            /\ loaded' = got.store.loaded
            /\ resolution' = [r |-> r, persona_id |-> persona_id, body |-> body,
                              persona |-> got.persona, resolved |-> resolved,
                              was_loaded |-> loaded]
            /\ pcall' = pcall

\* api.py 147-148: "success = await ...load_model(...)" / "if not success".
LoadResultIgnored(result) == TRUE
LoadSucceeded(result) == result = "true"

\* api.py 148-152: load_model has returned to chat_completions; False is a
\* 400, an exception a 500 (api.py 186-188).
ChatLoadReturn(r) ==
    /\ rpc[r] = "loading"
    /\ lpc = "return"
    /\ lframe.caller = [kind |-> "chat", r |-> r]
    /\ lpc' = "idle"
    /\ lframe' = NoFrame
    /\ lresult' = None
    /\ IF LoadSucceeded(lresult)
       THEN ChatRespond(r, rq[r].stream)
       ELSE /\ status' = [status EXCEPT ![r] = IF lresult = "false" THEN "400" ELSE "500"]
            /\ rpc' = [rpc EXCEPT ![r] = "responded"]
            /\ UNCHANGED <<spc, gcall>>
    /\ UNCHANGED <<envVars, personaVars, phase, engineVars, rq, loadCalls,
                   events, backendOut, sgen, bstate>>

\* api.py 176-188: generate_response has returned to chat_completions; its
\* result is the 200 response, an exception becomes a 500.
ChatGenerateReturn(r) ==
    /\ rpc[r] = "generating"
    /\ gcall.caller = [kind |-> "chat", r |-> r]
    /\ status' = [status EXCEPT ![r] = IF gcall.result = "response" THEN "200" ELSE "500"]
    /\ rpc' = [rpc EXCEPT ![r] = "responded"]
    /\ gcall' = NoCall
    /\ UNCHANGED <<envVars, personaVars, phase, engineVars, loadVars, rq, loadCalls, streamVars>>

\* The response of a request has been delivered (or its stream has ended):
\* the request object is gone and the connection serves the next request.
RequestDone(r) ==
    /\ rpc[r] = "responded"
    /\ Idle
    /\ status[r] = "stream" => spc[r] \in {"closed", "cancelled", "propagated"}
    /\ rpc' = [rpc EXCEPT ![r] = "new"]
    /\ rq' = [rq EXCEPT ![r] = NoRequest]
    /\ status' = [status EXCEPT ![r] = None]
    /\ loadCalls' = [loadCalls EXCEPT ![r] = 0]
    /\ spc' = [spc EXCEPT ![r] = None]
    /\ events' = [events EXCEPT ![r] = <<>>]
    /\ backendOut' = [backendOut EXCEPT ![r] = <<>>]
    /\ sgen' = [sgen EXCEPT ![r] = NoHandle]
    /\ bstate' = [bstate EXCEPT ![r] = None]
    /\ resolution' = IF resolution.r = r THEN NoResolution ELSE resolution
    /\ UNCHANGED <<envVars, persona_files, personas, loaded, pcall, phase, engineVars,
                   loadVars, gcall>>

\* --------------------------------------------- stream_chat_response
\* The events the generator yields (api.py 824-831, 838, 862-863, 868, 872-878).
StartEvent(name) == [type |-> "start", content |-> "", model |-> name]
PaddingEvent == [type |-> "padding", content |-> "", model |-> None]
ChunkEvent(t) == [type |-> "chunk", content |-> t, model |-> None]
DoneEvent == [type |-> "done", content |-> "", model |-> None]
ErrorEvent(msg) == [type |-> "error", content |-> msg, model |-> None]

\* api.py 870-878: "except Exception as e" yields one error event.
StreamExceptionPropagates(ev, msg) == [events |-> ev, spc |-> "propagated"]
StreamOnException(ev, msg) == [events |-> Append(ev, ErrorEvent(msg)), spc |-> "error"]

\* api.py 867-868: the for loop ended, yield the completion marker.
StreamEndsSilently(ev) == [events |-> ev, spc |-> "closed"]
StreamOnExhausted(ev) == [events |-> Append(ev, DoneEvent), spc |-> "done"]

\* Positions from which the generator goes on to create / advance the backend
\* token generator (api.py 840-865): after the padding event or a chunk event.
AdvanceBeforePadding == {"started", "padded", "chunk"}
AdvanceAfterClose == {"padded", "chunk", "cancelled"}
StreamAdvancePositions == {"padded", "chunk"}

\* api.py 822-831: first resumption, up to the yield of the start event.
StreamStart(r) ==
    /\ spc[r] = "created"
    /\ Idle
    /\ events' = [events EXCEPT ![r] = Append(@, StartEvent(current_model_name))]
    /\ spc' = [spc EXCEPT ![r] = "started"]
    /\ UNCHANGED <<envVars, personaVars, phase, engineVars, loadVars, reqVars, backendOut, sgen,
                   bstate, gcall>>

\* api.py 833-838: sleep, then yield the padding event.
StreamPadding(r) ==
    /\ spc[r] = "started"
    /\ Idle
    /\ events' = [events EXCEPT ![r] = Append(@, PaddingEvent)]
    /\ spc' = [spc EXCEPT ![r] = "padded"]
    /\ UNCHANGED <<envVars, personaVars, phase, engineVars, loadVars, reqVars, backendOut, sgen,
                   bstate, gcall>>

\* model_loader.py 218-232: what the backend stream hands over, one fragment
\* (chunk['choices'][0]['text']) at a time; "if token_text:" forwards the
\* non-empty ones only.
Fragments == Tokens \cup {""}
ForwardAll(token_text) == TRUE
Forwarded(token_text) == token_text # ""

\* api.py 848-865: one element of the token generator becomes one chunk event,
\* by the same loop body in direct mode (853-857) and in proxied mode (861-865).
StreamChunkTwiceProxied(ev, t, direct_mode) ==
    [events |-> IF direct_mode THEN Append(ev, ChunkEvent(t))
                ELSE Append(Append(ev, ChunkEvent(t)), ChunkEvent(t)),
     spc |-> "chunk"]
StreamOnChunk(ev, t, direct_mode) ==
    IF direct_mode
    THEN [events |-> Append(ev, ChunkEvent(t)), spc |-> "chunk"]
    ELSE [events |-> Append(ev, ChunkEvent(t)), spc |-> "chunk"]

\* api.py 840-868 with _generate_streaming_response (model_loader.py 196-232):
\* one resumption of the generator, up to its next yield.  The first one
\* creates the token generator and, on its first next(), calls the current
\* handle (TypeError when it is None); every one pulls backend fragments
\* (pulled), skipping those not forwarded, until a forwarded one (chunk
\* event), the end of the sequence ([DONE]) or an exception (error event).
StreamAdvance(r) ==
    /\ spc[r] \in StreamAdvancePositions
    /\ Idle
    /\ IF bstate[r] = None /\ current_model = NoHandle
       THEN LET x == StreamOnException(events[r], "TypeError")
            IN /\ events' = [events EXCEPT ![r] = x.events]
               /\ spc' = [spc EXCEPT ![r] = x.spc]
               /\ bstate' = [bstate EXCEPT ![r] = "failed"]
               /\ UNCHANGED <<backendOut, sgen>>
       ELSE \E pulled \in SeqsUpTo(Fragments, MaxFrags - Len(backendOut[r])) :
            \E what \in {"token", "exhausted", "raise"} :
               LET n == Len(pulled)
                   skipped == IF what = "token" THEN n - 1 ELSE n
                   out == backendOut[r] \o pulled
                   x == IF what = "token"
                        THEN StreamOnChunk(events[r], pulled[n], rq[r].direct_mode)
                        ELSE IF what = "exhausted"
                        THEN StreamOnExhausted(events[r])
                        ELSE StreamOnException(events[r], "backend")
               IN /\ what = "token" => n > 0 /\ Forwarded(pulled[n])
                  /\ \A i \in 1..skipped : ~Forwarded(pulled[i])
                  /\ sgen' = [sgen EXCEPT ![r] =
                                 IF what # "token" THEN NoHandle
                                 ELSE IF bstate[r] = None THEN current_model ELSE @]
                  /\ backendOut' = [backendOut EXCEPT ![r] = out]
                  /\ bstate' = [bstate EXCEPT ![r] =
                                   IF what = "token" THEN "open"
                                   ELSE IF what = "exhausted" THEN "exhausted"
                                   ELSE "raised"]
                  /\ events' = [events EXCEPT ![r] = x.events]
                  /\ spc' = [spc EXCEPT ![r] = x.spc]
    /\ UNCHANGED <<envVars, personaVars, phase, engineVars, loadVars, reqVars, gcall>>

\* The resumption after the [DONE] or the error event: the generator returns.
StreamClose(r) ==
    /\ spc[r] \in {"done", "error"}
    /\ Idle
    /\ spc' = [spc EXCEPT ![r] = "closed"]
    /\ UNCHANGED <<envVars, personaVars, phase, engineVars, loadVars, reqVars, events, backendOut,
                   sgen, bstate, gcall>>

\* The client disconnects: the transport closes the generator at the
\* suspension point it is at (GeneratorExit / CancelledError are not
\* Exception subclasses, so the handler at api.py 870 does not run).
StreamCancel(r) ==
    /\ spc[r] \in {"created", "started", "padded", "chunk", "done", "error"}
    /\ Idle
    /\ spc' = [spc EXCEPT ![r] = "cancelled"]
    /\ bstate' = [bstate EXCEPT ![r] = IF @ = "open" THEN "closed" ELSE @]
    /\ sgen' = [sgen EXCEPT ![r] = NoHandle]
    /\ UNCHANGED <<envVars, personaVars, phase, engineVars, loadVars, reqVars, events, backendOut,
                   gcall>>

\* ------------------------------------------------------------ specification
\* Chat requests come one at a time on the connection of Solo; the load
\* endpoint runs between any two resumptions of a streamed response, which
\* is how the engine changes under a response in flight.
Next ==
    \/ Initialize
    \/ InitializeReturn
    \/ LoadEntry
    \/ LoadConstruct
    \/ LoadAssign
    \/ Shutdown
    \/ \E n \in ReqModels : LoadEndpoint(n)
    \/ LoadEndpointReturn
    \/ \E r \in Solo, stream \in BOOLEAN : GenerateResponse(r, stream)
    \/ \E r \in Solo : GenerateReturn(r)
    \/ \E r \in Solo, m \in ReqModels, stream \in BOOLEAN, direct_mode \in BOOLEAN :
          ChatCompletions(r, m, stream, direct_mode)
    \/ \E r \in Solo : ChatLoadReturn(r)
    \/ \E r \in Solo : ChatGenerateReturn(r)
    \/ \E r \in Solo : RequestDone(r)
    \/ \E r \in Solo : StreamStart(r)
    \/ \E r \in Solo : StreamPadding(r)
    \/ \E r \in Solo : StreamAdvance(r)
    \/ \E r \in Solo : StreamClose(r)
    \/ \E r \in Solo : StreamCancel(r)

Spec == Init /\ [][Next]_vars


\* ------------------------------------------- two connections at a time
\* Both connections of Req post chat requests to an engine whose catalog
\* holds two loadable models.  FastAPI runs each request as a task of the one
\* event loop: they interleave at the suspension points of
\* stream_chat_response only (load_model and generate_response never await).
TwoModels == [ok |-> TRUE, data |-> <<[name |-> "a", file |-> "a.gguf"],
                                      [name |-> "b", file |-> "a.gguf"]>>]

InitTwo ==
    /\ Init
    /\ manifest = TwoModels
    /\ Llama

NextTwo ==
    \/ Initialize
    \/ InitializeReturn
    \/ LoadEntry
    \/ LoadConstruct
    \/ LoadAssign
    \/ \E r \in Req, m \in Names, stream \in BOOLEAN :
          ChatCompletions(r, m, stream, FALSE)
    \/ \E r \in Req : ChatLoadReturn(r)
    \/ \E r \in Req : ChatGenerateReturn(r)
    \/ \E r \in Req : RequestDone(r)
    \/ \E r \in Req : StreamStart(r)
    \/ \E r \in Req : StreamPadding(r)
    \/ \E r \in Req : StreamAdvance(r)
    \/ \E r \in Req : StreamClose(r)
    \/ \E r \in Req : StreamCancel(r)

SpecTwo == InitTwo /\ [][NextTwo]_vars


\* Connection 1 posts streamed requests and connection 2 non-streamed ones:
\* the loads of connection 2 fall between the resumptions of the streamed
\* response of connection 1.
NextRace ==
    \/ Initialize
    \/ InitializeReturn
    \/ LoadEntry
    \/ LoadConstruct
    \/ LoadAssign
    \/ \E r \in Solo, m \in Names : ChatCompletions(r, m, TRUE, FALSE)
    \/ \E r \in Req \ Solo, m \in Names : ChatCompletions(r, m, FALSE, FALSE)
    \/ \E r \in Req : ChatLoadReturn(r)
    \/ \E r \in Req \ Solo : ChatGenerateReturn(r)
    \/ \E r \in Req : RequestDone(r)
    \/ \E r \in Solo : StreamStart(r)
    \/ \E r \in Solo : StreamPadding(r)
    \/ \E r \in Solo : StreamAdvance(r)
    \/ \E r \in Solo : StreamClose(r)
    \/ \E r \in Solo : StreamCancel(r)

SpecRace == InitTwo /\ [][NextRace]_vars


\* ----------------------------------------------- requests with a persona
\* The bodies a client sends along with an X-Persona-ID header.
Bodies ==
    [model : ReqModels,
     messages : SeqsUpTo(Messages, MaxMessages),
     max_tokens : SentMaxTokens,
     temperature : SentTemperatures]

InitPersona ==
    /\ InitEngine
    /\ manifest = TwoModels
    /\ Llama
    /\ InitPersonaManager
    /\ persona_files \in Stores
    /\ InitSynchronizer
    /\ habitat = {}
    /\ mfile = Absent

NextPersona ==
    \/ Initialize
    \/ InitializeReturn
    \/ LoadEntry
    \/ LoadConstruct
    \/ LoadAssign
    \/ \E r \in Solo :
          /\ rpc[r] = "new" /\ Idle
          /\ \E persona_id \in PersonaIds, body \in Bodies :
                ChatCompletionsPersona(r, persona_id, body, FALSE)
    \/ \E r \in Solo : ChatLoadReturn(r)
    \/ \E r \in Solo : ChatGenerateReturn(r)
    \/ \E r \in Solo : RequestDone(r)

SpecPersona == InitPersona /\ [][NextPersona]_vars


\* ------------------------- update_models_manifest.py: the synchronizer runs
\* After open(path, 'w'), and after a json.dump that stopped before the end,
\* the text of the manifest file is no JSON document: it is Unparsable.


\* Lines 183-216: discovery, the existing manifest, the two differences and
\* the sorted list of profiles; an exception of the scan is caught at 235.
SynchronizeCall(preserve_existing) ==
    /\ sync.pc = "idle"
    /\ \/ sync' = [NoSync EXCEPT !.pc = "done", !.preserve_existing = preserve_existing,
                                 !.before = mfile, !.failure = "scan",
                                 !.result = "false"]
       \/ LET discovered == Discover(habitat)
              existing == LoadExistingManifest(mfile)
              new_architectures == discovered \ FilesOf(existing)
              orphaned_entries == FilesOf(existing) \ discovered
          IN \E new_order \in Orders(new_architectures) :
                sync' = [pc |-> "computed", preserve_existing |-> preserve_existing,
                         before |-> mfile, discovered |-> discovered,
                         new_architectures |-> new_architectures,
                         orphaned_entries |-> orphaned_entries,
                         updated_profiles |-> UpdatedProfiles(preserve_existing, discovered,
                                                              existing, new_order),
                         failure |-> None, result |-> None]
    /\ UNCHANGED <<manifest, files, Llama, ws, bridge, gsm, openai_api_key, fmt, habitat, mfile, runs, profile, personaVars,
                   phase, engineVars, loadVars, reqVars, streamVars, gcall>>

\* Line 224: open(path, 'w') raises and leaves the file, or truncates it.
SynchronizeOpen ==
    /\ sync.pc = "computed"
    /\ \/ /\ sync' = [sync EXCEPT !.pc = "done", !.failure = "open", !.result = "false"]
          /\ mfile' = mfile
       \/ /\ sync' = [sync EXCEPT !.pc = "opened"]
          /\ mfile' = Unparsable
    /\ UNCHANGED <<manifest, files, Llama, ws, bridge, gsm, openai_api_key, fmt, habitat, runs, profile, personaVars,
                   phase, engineVars, loadVars, reqVars, streamVars, gcall>>

\* Lines 225-237: json.dump writes the whole document and the run returns
\* True, or raises part way and the run returns False.
SynchronizeDump ==
    /\ sync.pc = "opened"
    /\ \/ /\ mfile' = Written(sync.updated_profiles)
          /\ sync' = [sync EXCEPT !.pc = "done", !.result = "true"]
       \/ /\ mfile' = Unparsable
          /\ sync' = [sync EXCEPT !.pc = "done", !.failure = "dump", !.result = "false"]
    /\ UNCHANGED <<manifest, files, Llama, ws, bridge, gsm, openai_api_key, fmt, habitat, runs, profile, personaVars,
                   phase, engineVars, loadVars, reqVars, streamVars, gcall>>

\* The process is stopped between two steps of the run: nothing is returned.
SynchronizeInterrupted ==
    /\ sync.pc \in {"computed", "opened"}
    /\ sync' = [sync EXCEPT !.pc = "interrupted"]
    /\ UNCHANGED <<manifest, files, Llama, ws, bridge, gsm, openai_api_key, fmt, habitat, mfile, runs, profile, personaVars,
                   phase, engineVars, loadVars, reqVars, streamVars, gcall>>

\* The run is over; the last run since the directory changed is kept.
SynchronizeReturn ==
    /\ sync.pc \in {"done", "interrupted"}
    /\ runs' = <<[preserve_existing |-> sync.preserve_existing, result |-> sync.result]>>
    /\ sync' = NoSync
    /\ UNCHANGED <<manifest, files, Llama, ws, bridge, gsm, openai_api_key, fmt, habitat, mfile, profile, personaVars,
                   phase, engineVars, loadVars, reqVars, streamVars, gcall>>

\* Between two runs a file appears in the models directory or leaves it.
HabitatChange(e) ==
    /\ sync.pc = "idle"
    /\ habitat' = IF e \in habitat THEN habitat \ {e} ELSE habitat \cup {e}
    /\ runs' = <<>>
    /\ UNCHANGED <<manifest, files, Llama, ws, bridge, gsm, openai_api_key, fmt, mfile, sync, profile, personaVars,
                   phase, engineVars, loadVars, reqVars, streamVars, gcall>>

\* ------------------------------------------------ calls of the formatter
NextFormat ==
    \/ Initialize
    \/ InitializeReturn
    \/ LoadEntry
    \/ LoadConstruct
    \/ LoadAssign
    \/ Shutdown
    \/ \E n \in Names : LoadEndpoint(n)
    \/ LoadEndpointReturn
    \/ \E messages \in PromptMessages : FormatCall(messages)

SpecFormat == InitTwo /\ [][NextFormat]_vars

\* ------------------------- POST /v1/personas/generate_system_message
\* api.py 497-505 and persona.py 294-303, up to the await of session.post:
\* a key of the request replaces the manager's key; with no key at all the
\* method returns None and the handler restores and answers at once;
\* otherwise the Authorization header is built from the manager's key.
GenerateSystemMessage(q, api_key) ==
    LET supplied == api_key # None
        key == IF supplied THEN api_key ELSE openai_api_key
        others == {o \in Req \ {q} : gsm[o].pc = "posted"}
        frame == [pc |-> "posted", api_key |-> api_key,
                  original |-> IF supplied THEN openai_api_key ELSE None,
                  used |-> key,
                  configured |-> IF others = {} THEN openai_api_key
                                 ELSE gsm[CHOOSE o \in others : TRUE].configured]
    IN /\ gsm[q].pc # "posted"
       /\ IF key = ""
          THEN /\ gsm' = [gsm EXCEPT ![q] = [frame EXCEPT !.pc = "done", !.used = None]]
               /\ openai_api_key' = openai_api_key
          ELSE /\ gsm' = [gsm EXCEPT ![q] = frame]
               /\ openai_api_key' = key
       /\ UNCHANGED <<manifest, files, Llama, ws, bridge, habitat, mfile, sync, runs, profile, fmt,
                      persona_files, personas, loaded, resolution, pcall, phase, engineVars,
                      loadVars, reqVars, streamVars, gcall>>

\* persona.py 339-350 and api.py 507-520: the answer of the remote service
\* arrives; the handler puts back the key it saved, if it saved one.
GenerateSystemMessageReturn(q) ==
    /\ gsm[q].pc = "posted"
    /\ gsm' = [gsm EXCEPT ![q].pc = "done"]
    /\ openai_api_key' = IF gsm[q].api_key # None THEN gsm[q].original ELSE openai_api_key
    /\ UNCHANGED <<manifest, files, Llama, ws, bridge, habitat, mfile, sync, runs, profile, fmt,
                   persona_files, personas, loaded, resolution, pcall, phase, engineVars,
                   loadVars, reqVars, streamVars, gcall>>

\* api.py 527-538: the key is configured while no generation is under way.
SetOpenaiApiKey(api_key) ==
    /\ \A q \in Req : gsm[q].pc # "posted"
    /\ openai_api_key' = api_key
    /\ gsm' = [q \in Req |-> [pc |-> "idle", api_key |-> None, original |-> None,
                               used |-> None, configured |-> api_key]]
    /\ UNCHANGED <<manifest, files, Llama, ws, bridge, habitat, mfile, sync, runs, profile, fmt,
                   persona_files, personas, loaded, resolution, pcall, phase, engineVars,
                   loadVars, reqVars, streamVars, gcall>>

NextKey ==
    \/ \E q \in Req, api_key \in {None, "ka", "kb"} : GenerateSystemMessage(q, api_key)
    \/ \E q \in Req : GenerateSystemMessageReturn(q)
    \/ \E api_key \in {"k0", "k1"} : SetOpenaiApiKey(api_key)

SpecKey == InitTwo /\ [][NextKey]_vars

\* ------------------------------- DirectLLMBridge.handle_client (WebSocket)
\* direct_bridge.py 100-102 with register_client (91-94): the connection is
\* accepted and joins self.clients; the handler waits in receive_text.
HandleClient(c) ==
    /\ ws[c].pc = "new"
    /\ ws' = [ws EXCEPT ![c].pc = "receive"]
    /\ UNCHANGED <<manifest, files, Llama, bridge, gsm, openai_api_key, fmt, habitat,
                   mfile, sync, runs, profile, personaVars, phase, engineVars,
                   loadVars, reqVars, streamVars, gcall>>

\* direct_bridge.py 105-139 and 174-185: one request is received and
\* dispatched.  load_model (33-71) has no suspension point: it runs whole,
\* model_file being present or not in the models directory and the
\* constructor returning or raising (constructed).  A generate command is
\* refused when no model is ready (121-126); otherwise the prompt is
\* formatted and generation_start is sent (133-139), and the handler is
\* suspended in that send before it calls the model.
HandleClientReceive(c, command, model_file, constructed) ==
    LET event(name, text) == [event |-> name, token |-> "", text |-> text]
        fresh == [ws[c] EXCEPT !.command = command, !.events = <<>>, !.out = <<>>,
                               !.generated_text = ""]
        unloaded == IF Llama /\ bridge.model # None
                    THEN [model |-> None, model_name |-> None, is_ready |-> FALSE]
                    ELSE bridge
        success == Llama /\ model_file \in files /\ constructed
        reply(e) == [fresh EXCEPT !.events = <<e>>]
    IN /\ ws[c].pc = "receive"
       /\ IF command = "load_model"
          THEN /\ bridge' = IF success
                            THEN [model |-> model_file, model_name |-> model_file,
                                  is_ready |-> TRUE]
                            ELSE unloaded
               /\ ws' = [ws EXCEPT ![c] =
                           reply(event("model_loaded",
                                       IF success THEN model_file ELSE None))]
          ELSE IF command = "generate"
          THEN /\ bridge' = bridge
               /\ IF ~bridge.is_ready \/ bridge.model = None
                  THEN ws' = [ws EXCEPT ![c] = reply(event("error", "Model not loaded"))]
                  ELSE ws' = [ws EXCEPT ![c] =
                                [reply(event("generation_start", bridge.model_name))
                                     EXCEPT !.pc = "started"]]
          ELSE IF command = "status"
          THEN /\ bridge' = bridge
               /\ ws' = [ws EXCEPT ![c] = reply(event("status", bridge.model_name))]
          ELSE /\ bridge' = bridge
               /\ ws' = [ws EXCEPT ![c] = reply(event("error", "Unknown command"))]
       /\ UNCHANGED <<manifest, files, Llama, gsm, openai_api_key, fmt, habitat,
                      mfile, sync, runs, profile, personaVars, phase, engineVars,
                      loadVars, reqVars, streamVars, gcall>>

\* direct_bridge.py 142-149: back from the send of generation_start, the
\* handler calls self.model(prompt, ..., stream=True).  The attribute is read
\* now: when another connection's load_model has set it to None in between,
\* the call raises TypeError, handled at 189-198 (an error event, then the
\* client is unregistered).
HandleClientInvoke(c) ==
    /\ ws[c].pc = "started"
    /\ IF bridge.model = None
       THEN ws' = [ws EXCEPT ![c].pc = "closed",
                             ![c].events = Append(@, [event |-> "error", token |-> "",
                                                      text |-> "not callable"])]
       ELSE ws' = [ws EXCEPT ![c].pc = "streaming"]
    /\ UNCHANGED <<manifest, files, Llama, bridge, gsm, openai_api_key, fmt, habitat,
                   mfile, sync, runs, profile, personaVars, phase, engineVars,
                   loadVars, reqVars, streamVars, gcall>>

\* direct_bridge.py 151-172: one turn of "for chunk in stream".  The backend
\* yields a fragment (an empty one is skipped, any other is added to
\* generated_text and sent with the text so far), or is exhausted
\* (generation_complete is sent and the handler receives again), or raises
\* (189-198).
HandleClientChunk(c) ==
    /\ ws[c].pc = "streaming"
    /\ \/ \E token \in Fragments :
            /\ Len(ws[c].out) < MaxFrags
            /\ ws' = [ws EXCEPT ![c] =
                 IF token # ""
                 THEN [@ EXCEPT !.out = Append(@, token),
                                !.generated_text = @ \o token,
                                !.events = Append(@, [event |-> "token", token |-> token,
                                                      text |-> ws[c].generated_text \o token])]
                 ELSE [@ EXCEPT !.out = Append(@, token)]]
       \/ ws' = [ws EXCEPT ![c].pc = "receive",
                           ![c].events = Append(@, [event |-> "generation_complete",
                                                    token |-> "",
                                                    text |-> ws[c].generated_text])]
       \/ ws' = [ws EXCEPT ![c].pc = "closed", ![c].raised = TRUE,
                           ![c].events = Append(@, [event |-> "error", token |-> "",
                                                    text |-> "backend"])]
    /\ UNCHANGED <<manifest, files, Llama, bridge, gsm, openai_api_key, fmt, habitat,
                   mfile, sync, runs, profile, personaVars, phase, engineVars,
                   loadVars, reqVars, streamVars, gcall>>

\* direct_bridge.py 187-198: the client goes away while the handler waits in
\* receive_text or in a send; the handler unregisters it and ends.
HandleClientDisconnect(c) ==
    /\ ws[c].pc \in {"receive", "started", "streaming"}
    /\ ws' = [ws EXCEPT ![c].pc = "closed", ![c].gone = TRUE]
    /\ UNCHANGED <<manifest, files, Llama, bridge, gsm, openai_api_key, fmt, habitat,
                   mfile, sync, runs, profile, personaVars, phase, engineVars,
                   loadVars, reqVars, streamVars, gcall>>

\* The connections of Req are served by one bridge; their handlers
\* interleave at the awaits of handle_client.
NextBridge ==
    \/ \E c \in Req : HandleClient(c)
    \/ \E c \in Req, command \in {"load_model", "generate", "status", "reset"},
          model_file \in {"a.gguf", "b.gguf"}, constructed \in BOOLEAN :
          HandleClientReceive(c, command, model_file, constructed)
    \/ \E c \in Req : HandleClientInvoke(c)
    \/ \E c \in Req : HandleClientChunk(c)
    \/ \E c \in Req : HandleClientDisconnect(c)

SpecBridge == InitTwo /\ [][NextBridge]_vars

\* --------------------------------------------- calls of PersonaManager
TheStore == [files |-> persona_files, personas |-> personas, loaded |-> loaded]

\* persona.py 231-236.
GetPersonaCall(persona_id) ==
    LET got == GetPersona(TheStore, persona_id)
    IN /\ persona_files' = got.store.files
       /\ personas' = got.store.personas
       /\ loaded' = got.store.loaded
       /\ pcall' = [op |-> "get", persona_id |-> persona_id, persona |-> got.persona,
                    before |-> TheStore,
                    result |-> IF got.persona = NoPersona THEN None ELSE "found"]
       /\ UNCHANGED <<envVars, resolution, phase, engineVars, loadVars, reqVars,
                      streamVars, gcall>>

\* persona.py 277-282.
ListPersonasCall ==
    LET after == IF ~loaded THEN LoadPersonas(TheStore) ELSE TheStore
    IN /\ persona_files' = after.files
       /\ personas' = after.personas
       /\ loaded' = after.loaded
       /\ pcall' = [op |-> "list", persona_id |-> None, persona |-> NoPersona,
                    before |-> TheStore, result |-> "listed"]
       /\ UNCHANGED <<envVars, resolution, phase, engineVars, loadVars, reqVars,
                      streamVars, gcall>>

\* persona.py 238-255.
SavePersonaCall(p, open_ok) ==
    LET out == SaveOutcome(TheStore, p, open_ok)
    IN /\ persona_files' = out.store.files
       /\ personas' = out.store.personas
       /\ loaded' = out.store.loaded
       /\ pcall' = [op |-> "save", persona_id |-> p.id, persona |-> p,
                    before |-> TheStore, result |-> out.result]
       /\ UNCHANGED <<envVars, resolution, phase, engineVars, loadVars, reqVars,
                      streamVars, gcall>>

\* persona.py 257-275.
DeletePersonaCall(persona_id, remove_ok) ==
    LET out == DeleteOutcome(TheStore, persona_id, remove_ok)
    IN /\ persona_files' = out.store.files
       /\ personas' = out.store.personas
       /\ loaded' = out.store.loaded
       /\ pcall' = [op |-> "delete", persona_id |-> persona_id, persona |-> NoPersona,
                    before |-> TheStore, result |-> out.result]
       /\ UNCHANGED <<envVars, resolution, phase, engineVars, loadVars, reqVars,
                      streamVars, gcall>>

NextStore ==
    \/ \E persona_id \in PersonaIds : GetPersonaCall(persona_id)
    \/ ListPersonasCall
    \/ \E p \in SavedPersonas, open_ok \in BOOLEAN : SavePersonaCall(p, open_ok)
    \/ \E persona_id \in PersonaIds, remove_ok \in BOOLEAN :
          DeletePersonaCall(persona_id, remove_ok)

SpecStore == InitPersona /\ [][NextStore]_vars

\* --------------------------------------------- runs of the synchronizer
InitManifest ==
    /\ InitEngine
    /\ manifest = TwoModels
    /\ Llama
    /\ InitPersonaManager
    /\ persona_files = {}
    /\ InitSynchronizer
    /\ habitat \in SUBSET DirEntries
    /\ mfile \in InitialManifests

NextManifest ==
    \/ \E preserve_existing \in BOOLEAN : SynchronizeCall(preserve_existing)
    \/ SynchronizeOpen
    \/ SynchronizeDump
    \/ SynchronizeInterrupted
    \/ SynchronizeReturn
    \/ \E e \in DirEntries : HabitatChange(e)

SpecManifest == InitManifest /\ [][NextManifest]_vars

\* ------------------------------------------------- calls of the analyzer
NextClassify == \E filename \in FileNames : AnalyzeCall(filename)

SpecClassify == InitTwo /\ [][NextClassify]_vars

\* ------------------------------------------------------------------ claims
HeldByEngine == IF current_model = NoHandle THEN {} ELSE {current_model}

\* C1: at every point, the intermediate points of load_model included, the
\* engine holds at most one model handle; the previous handle is released
\* before the new one is constructed; and when load_model returns True the
\* one handle held is that of the requested model and current_model_name is
\* its name (so after loading A then B, exactly B's handle is held).
C1_AtMostOneHandle ==
    /\ Cardinality(held) <= 1
    /\ lpc = "construct" => held = {}
    /\ lpc = "assign" => held = {lframe.new}
    /\ lpc \in {"idle", "return"} => held = HeldByEngine
    /\ (lpc = "return" /\ lresult = "true") =>
          /\ held = {current_model}
          /\ current_model.model = lframe.name
          /\ current_model_name = lframe.name

\* A load of B has returned True while A's handle was held at the call.
C1_SwapWitness ==
    /\ lpc = "return"
    /\ lresult = "true"
    /\ lframe.pre.current_model # NoHandle
    /\ lframe.pre.current_model.model # lframe.name
    /\ lframe.pre.current_model_name # lframe.name

\* C2: between calls of initialize, load_model and shutdown, is_ready is true
\* if and only if a model handle is held.
C2_ReadyIffHandleHeld ==
    (Idle /\ phase # "initializing") => (is_ready <=> current_model # NoHandle)

\* C3: load_model of a name that is not in the catalog returns False and
\* leaves the engine (handle, current_model_name, is_ready, catalog) as it
\* was when the call was made.
C3_UnknownNameLeavesState ==
    (lpc = "return" /\ ~InCatalog(lframe.pre.available_models, lframe.name)) =>
        /\ lresult = "false"
        /\ EngineState = lframe.pre

\* An unknown name was asked for while a model was loaded.
C3_UnknownWhileLoadedWitness ==
    /\ lpc = "return"
    /\ ~InCatalog(lframe.pre.available_models, lframe.name)
    /\ lframe.pre.current_model # NoHandle

\* C4: load_model never raises; it returns False when the name is unknown,
\* when the backing file is missing and when the backend constructor throws,
\* and it returns True only when a handle was constructed.
C4_LoadNeverRaises ==
    /\ lresult # "raised"
    /\ lpc = "return" =>
          /\ lresult \in {"true", "false"}
          /\ ~InCatalog(available_models, lframe.name) => lresult = "false"
          /\ (InCatalog(available_models, lframe.name)
                /\ ConfigOf(available_models, lframe.name).file \notin files)
             => lresult = "false"
          /\ lframe.threw => lresult = "false"
          /\ lresult = "true" =>
                /\ ~lframe.threw
                /\ lframe.new # NoHandle
                /\ current_model = lframe.new

\* The backend constructor threw during a load.
C4_ConstructorThrewWitness ==
    /\ lpc = "return"
    /\ lframe.threw
    /\ lresult = "false"


\* C5: in chat_completions, when request.model equals current_model_name the
\* resolution step calls load_model not at all and leaves the engine state
\* unchanged; otherwise it calls load_model(request.model), and a request
\* never calls it more than once.
C5_EnsureLoadedNoOp ==
    [][\A r \in Req :
          /\ loadCalls'[r] <= 1
          /\ (rpc[r] = "new" /\ rpc'[r] # "new" /\ rq'[r] # NoRequest /\ is_ready) =>
                IF rq'[r].model = current_model_name
                THEN /\ loadCalls'[r] = 0
                     /\ lpc' = "idle"
                     /\ UNCHANGED engineVars
                ELSE /\ loadCalls'[r] = 1
                     /\ lpc' = "entry"
                     /\ lframe'.name = rq'[r].model
                     /\ lframe'.caller = [kind |-> "chat", r |-> r]
    ]_vars

\* A request for the model already loaded has been answered without a load.
C5_NoLoadWitness ==
    \E r \in Req :
        /\ rpc[r] = "responded"
        /\ status[r] \in {"200", "stream"}
        /\ loadCalls[r] = 0
        /\ rq[r].model = current_model_name

\* C6: generate_response called while no model handle is held raises (no
\* model loaded) without invoking the backend, with stream=True as with
\* stream=False, and leaves the engine state unchanged.
C6_GenerateNotReady ==
    (gcall # NoCall /\ gcall.pre.current_model = NoHandle) =>
        /\ gcall.result = "NotReady"
        /\ ~gcall.invoked
        /\ EngineState = gcall.pre

\* generate_response(stream=True) was called with no handle held.
C6_StreamCallWitness ==
    /\ gcall # NoCall
    /\ gcall.stream
    /\ gcall.pre.current_model = NoHandle
    /\ gcall.result = "NotReady"

\* C7: after shutdown (once or several times in a row) the engine holds no
\* handle, is_ready is false and current_model_name is cleared.
C7_ShutdownClearsEngine ==
    phase = "stopped" =>
        /\ current_model = NoHandle
        /\ held = {}
        /\ ~is_ready
        /\ current_model_name = None

EventTypes(ev) == [i \in 1..Len(ev) |-> ev[i].type]
Terminal(e) == e.type \in {"done", "error"}
NoToken(out) == \A i \in 1..Len(out) : out[i] = ""
Positions(ev, type) == {i \in 1..Len(ev) : ev[i].type = type}

\* C8: a streamed response that ends without being cancelled ends with a
\* terminal event ([DONE] or the error event); no event ever follows a
\* terminal event; and when the backend raises before producing any token the
\* events are exactly: start, padding, error.
C8_StreamEndsWithTerminal ==
    \A r \in Req :
        /\ \A i \in 1..Len(events[r]) : Terminal(events[r][i]) => i = Len(events[r])
        /\ spc[r] = "closed" =>
              /\ events[r] # <<>>
              /\ Terminal(events[r][Len(events[r])])
        /\ (bstate[r] \in {"raised", "failed"} /\ NoToken(backendOut[r])) =>
              EventTypes(events[r]) = <<"start", "padding", "error">>

\* The backend raised before any token and the stream has ended.
C8_ImmediateRaiseWitness ==
    /\ spc[1] = "closed"
    /\ bstate[1] = "raised"
    /\ backendOut[1] = <<>>

\* C9: when a step of a streamed response raises, exactly one error event is
\* emitted and it is the last event; no error event is emitted otherwise; the
\* exception does not reach the transport; [DONE] and the error event never
\* occur in the same response.
C9_SingleErrorEvent ==
    \A r \in Req :
        LET errs == Positions(events[r], "error")
        IN /\ Cardinality(errs) <= 1
           /\ \A i \in errs : i = Len(events[r])
           /\ errs # {} => Positions(events[r], "done") = {}
           /\ spc[r] # "propagated"
           /\ bstate[r] \in {"raised", "failed"} <=> errs # {}

\* The backend raised after a token had been delivered.
C9_MidStreamRaiseWitness ==
    /\ bstate[1] = "raised"
    /\ Positions(events[1], "chunk") # {}
    /\ spc[1] = "closed"

\* C10: the first event is the zero-content start event carrying a model
\* name, the second the single padding event; the backend token generator is
\* created and advanced only after both, so every chunk event follows them;
\* [DONE] is emitted only once the token sequence is exhausted, after a
\* chunk event for each of its non-empty fragments.
C10_StartPaddingFirst ==
    \A r \in Req :
        LET ev == events[r]
        IN /\ Len(ev) >= 1 =>
                 /\ ev[1].type = "start"
                 /\ ev[1].content = ""
                 /\ ev[1].model \in Names
           /\ Len(ev) >= 2 => ev[2] = PaddingEvent
           /\ Positions(ev, "start") \subseteq {1}
           /\ Positions(ev, "padding") \subseteq {2}
           /\ (bstate[r] # None \/ backendOut[r] # <<>>) =>
                 /\ Len(ev) >= 3
                 /\ ev[1].type = "start"
                 /\ ev[2].type = "padding"
           /\ Positions(ev, "done") # {} =>
                 /\ bstate[r] = "exhausted"
                 /\ Cardinality(Positions(ev, "chunk"))
                       = Cardinality({i \in 1..Len(backendOut[r]) : backendOut[r][i] # ""})

\* A response delivered two tokens and then the [DONE] marker.
C10_CompleteStreamWitness ==
    /\ EventTypes(events[1]) = <<"start", "padding", "chunk", "chunk", "done">>
    /\ bstate[1] = "exhausted"

IsChunk(e) == e.type = "chunk"
NonEmptyFragment(f) == f # ""
ChunkTexts(ev) ==
    LET ch == SelectSeq(ev, IsChunk)
    IN [i \in 1..Len(ch) |-> ch[i].content]

C12_NoEmptyDelta ==
    \A r \in Req :
        /\ bstate[r] = "open" => backendOut[r][Len(backendOut[r])] # ""
        /\ \A i \in Positions(events[r], "chunk") : events[r][i].content # ""

\* The backend produced an empty fragment and then a token, which was
\* delivered.
C12_EmptyFragmentSkippedWitness ==
    /\ backendOut[1] = <<"", "x">>
    /\ bstate[1] = "open"
    /\ Positions(events[1], "chunk") # {}

\* C13: once the delivery generator of a response has been closed at a
\* suspension point, its token generator is not open any more and no step
\* advances it, emits an event or resumes the response; the only thing that
\* happens to the connection is that it is reused by the next request.
C13_CancelStopsGeneration ==
    [][\A r \in Req :
          spc[r] = "cancelled" =>
             /\ bstate[r] # "open"
             /\ \/ /\ spc'[r] = "cancelled"
                   /\ events'[r] = events[r]
                   /\ backendOut'[r] = backendOut[r]
                   /\ bstate'[r] = bstate[r]
                \/ /\ spc'[r] = None
                   /\ rpc'[r] = "new"
                   /\ events'[r] = <<>>
                   /\ backendOut'[r] = <<>>]_vars

\* A response was closed by the client after a token had been delivered and
\* before the backend was exhausted.
C13_ClosedMidStreamWitness ==
    /\ spc[1] = "cancelled"
    /\ bstate[1] = "closed"
    /\ Positions(events[1], "chunk") # {}
    /\ Positions(events[1], "done") = {}

\* Request r has a backend generation started and not finished: the token
\* generator of its streamed response is open, or its generate_response
\* call has invoked the backend and has not returned yet.
InFlight(r) ==
    \/ bstate[r] = "open"
    \/ gcall.invoked /\ gcall.caller = [kind |-> "chat", r |-> r]

\* C14: in every reachable state at most one request has a backend
\* generation in flight.
C14_SingleGenerationInFlight ==
    Cardinality({r \in Req : InFlight(r)}) <= 1

\* The streamed response of r has emitted its start event, has not emitted a
\* terminal event and has not been closed.
MidStream(r) ==
    /\ spc[r] \in {"started", "padded", "chunk"}
    /\ Positions(events[r], "start") # {}
    /\ \A i \in 1..Len(events[r]) : ~Terminal(events[r][i])

\* C15: requests are not isolated from each other: when the load_model call
\* of one request passes the catalog lookup while the streamed response of
\* another request is between its start event and its terminal event, the
\* handle the engine holds is released in that very step, and the streamed
\* response is neither ended nor told; the state in which the model has been
\* replaced under a response that is streaming from it is reachable.
C15_LoadIgnoresStreams ==
    [][\A r1 \in Req : \A r2 \in Req \ {r1} :
          (/\ MidStream(r1)
           /\ lpc = "entry"
           /\ lframe.caller = [kind |-> "chat", r |-> r2]
           /\ current_model # NoHandle)
          => /\ current_model' = NoHandle
             /\ current_model \notin held'
             /\ spc'[r1] = spc[r1]
             /\ events'[r1] = events[r1]
             /\ bstate'[r1] = bstate[r1]]_vars

\* The load_model call of request 2 has replaced the model while the response
\* of request 1 is mid-stream with an open token generator on the old handle.
C15_ReplacedUnderStreamWitness ==
    /\ MidStream(1)
    /\ bstate[1] = "open"
    /\ lframe.caller = [kind |-> "chat", r |-> 2]
    /\ lpc = "return"
    /\ lresult = "true"
    /\ sgen[1] # NoHandle
    /\ sgen[1] # current_model
    /\ sgen[1] \notin held

\* The persona resolution of the request in progress found a stored persona.
PersonaSelected == resolution.persona # NoPersona
SystemMessageOf(p) == [role |-> "system", content |-> p.system_message]

\* C16: when a stored persona is selected and the first message sent is not
\* a system message, the resolved messages are the persona's system message
\* followed by the messages sent, in their order; and whatever the messages
\* sent, the resolver inserts at most one message, in front, and only when
\* the message then following it is not a system message.
C16_PersonaSystemMessagePrepended ==
    LET sent == resolution.body.messages
        res == resolution.resolved.messages
    IN PersonaSelected =>
          /\ (Len(sent) > 0 /\ sent[1].role # "system") =>
                res = <<SystemMessageOf(resolution.persona)>> \o sent
          /\ Len(res) \in {Len(sent), Len(sent) + 1}
          /\ Len(res) = Len(sent) + 1 =>
                /\ Tail(res) = sent
                /\ res[2].role # "system"

\* Persona p1 was selected for a request whose messages start with a user
\* message and go on with a system message.
C16_UserFirstWitness ==
    /\ resolution.persona.id = "p1"
    /\ resolution.body.messages = <<[role |-> "user", content |-> "hi"],
                                    [role |-> "system", content |-> ""]>>
    /\ Len(resolution.resolved.messages) = 3

\* C17: when a stored persona is selected and the first message sent is a
\* system message, no message is inserted; a non-empty first content leaves
\* the whole list as sent, an empty one is replaced by the persona's system
\* message and nothing else changes.
C17_CallerSystemMessageKept ==
    LET sent == resolution.body.messages
        res == resolution.resolved.messages
    IN (PersonaSelected /\ Len(sent) > 0 /\ sent[1].role = "system") =>
          IF sent[1].content # ""
          THEN res = sent
          ELSE res = [sent EXCEPT ![1].content = resolution.persona.system_message]

\* Persona p2 was selected for a request whose first message is a system
\* message with empty content, followed by a user message.
C17_EmptySystemFirstWitness ==
    /\ resolution.persona.id = "p2"
    /\ resolution.body.messages = <<[role |-> "system", content |-> ""],
                                    [role |-> "user", content |-> "hi"]>>
    /\ resolution.resolved.messages[1].content = "be kind"

NotSupplied(sent) == sent \in {Omitted, None}

\* C18: when a stored persona is selected, a temperature (max_tokens) the
\* caller did not supply resolves to the persona's, and one the caller
\* supplied is kept.
C18_PersonaDefaultsApplied ==
    LET b == resolution.body
        res == resolution.resolved
        p == resolution.persona
    IN PersonaSelected =>
          /\ res.temperature = IF NotSupplied(b.temperature) THEN p.temperature
                               ELSE b.temperature
          /\ res.max_tokens = IF NotSupplied(b.max_tokens) THEN p.max_tokens
                              ELSE b.max_tokens

\* C19: when a stored persona is selected, the resolved model is the
\* persona's model if the model sent is empty and the model sent otherwise,
\* and it is the model the handler goes on with.
C19_PersonaModelOverlay ==
    PersonaSelected =>
       /\ resolution.resolved.model =
             IF resolution.body.model = "" THEN resolution.persona.model
             ELSE resolution.body.model
       /\ rq[resolution.r].model = resolution.resolved.model

\* A request with an empty model and persona p1 was answered by the
\* persona's model "b", loaded for it.
C19_PersonaModelLoadedWitness ==
    /\ resolution.body.model = ""
    /\ resolution.persona.id = "p1"
    /\ current_model_name = "b"
    /\ loadCalls[1] = 1
    /\ status[1] = "200"

C21_LoadFailureIsRequestLevel ==
    [][\A r \in Req :
          (/\ rpc[r] = "loading"
           /\ lpc = "return"
           /\ lframe.caller = [kind |-> "chat", r |-> r]
           /\ lresult # "true")
          => /\ status'[r] = "400"
             /\ rpc'[r] = "responded"
             /\ gcall' = NoCall
             /\ spc'[r] = None
             /\ bstate'[r] = None
             /\ is_ready /\ is_ready'
             /\ phase' = "serving"]_vars

\* A chat request for a model other than the loaded one got a 400 after a
\* load that released the previous handle and then failed.
C21_FailedLoadWitness ==
    /\ status[1] = "400"
    /\ loadCalls[1] = 1
    /\ current_model = NoHandle
    /\ current_model_name \in Names
    /\ is_ready

\* A run of the synchronizer has returned True and the run before it, with the
\* same preserve_existing and no change of the directory in between, had too.
SecondRunDone ==
    /\ sync.pc = "done"
    /\ sync.result = "true"
    /\ runs # <<>>
    /\ runs[1].result = "true"
    /\ runs[1].preserve_existing = sync.preserve_existing

\* C22: reconciliation is idempotent: a second run with no change of the
\* directory in between writes the manifest the first run wrote, and finds no
\* new file and no orphaned descriptor.
C22_ReconcileIdempotent ==
    SecondRunDone => /\ mfile = sync.before
                     /\ sync.new_architectures = {}
                     /\ sync.orphaned_entries = {}

\* A run of the synchronizer has written the manifest and returned True.
RunSucceeded == sync.pc = "done" /\ sync.result = "true"

\* C23: after every successful run the written manifest holds no two
\* descriptors with the same name and no two with the same file.
C23_WrittenManifestUnique ==
    RunSucceeded => \A i, j \in 1..Len(mfile.data) :
                        i # j => /\ mfile.data[i].name # mfile.data[j].name
                                 /\ mfile.data[i].file # mfile.data[j].file

\* How often a descriptor occurs in a list of descriptors.
Occurrences(profiles, d) == Cardinality({i \in 1..Len(profiles) : profiles[i] = d})

\* The descriptors the manifest held when the run started.
ExistingBefore == IF sync.before.state = "ok" THEN sync.before.data ELSE <<>>

\* C24: the manifest a successful run writes holds exactly the existing
\* descriptors whose file is still discovered (if preserve_existing, none
\* otherwise), unchanged, plus one freshly classified descriptor per
\* discovered file no existing descriptor names; no orphaned descriptor is
\* left, and the entries ascend by display name.
C24_WrittenManifestExact ==
    RunSucceeded =>
        LET written == mfile.data
            discovered == Discover(habitat)
            fresh == {AnalyzeCognitiveSignature(f) :
                         f \in discovered \ FilesOf(ExistingBefore)}
            candidates == {written[i] : i \in 1..Len(written)}
                          \cup {ExistingBefore[i] : i \in 1..Len(ExistingBefore)}
                          \cup fresh
        IN /\ \A d \in candidates :
                 Occurrences(written, d)
                     = (IF sync.preserve_existing /\ d.file \in discovered
                        THEN Occurrences(ExistingBefore, d) ELSE 0)
                       + (IF d \in fresh THEN 1 ELSE 0)
           /\ \A i \in 1..Len(written) : written[i].file \in discovered
           /\ \A i, j \in 1..Len(written) :
                 i < j => ~StrLess(written[j].name, written[i].name)

\* A run that kept a hand-written descriptor, dropped an orphaned one and
\* classified a new file whose name sorts before the kept one.
C24_KeptNewOrphanWitness ==
    /\ RunSucceeded
    /\ sync.preserve_existing
    /\ sync.before = Written(<<CustomProfile, GoneProfile>>)
    /\ sync.orphaned_entries = {"gone.gguf"}
    /\ sync.new_architectures = {"tinymodel-1b.Q4_K_M.gguf"}
    /\ Len(mfile.data) = 2
    /\ mfile.data[2] = CustomProfile

\* C25: the manifest write is all-or-nothing: while a run has not returned
\* True (it is under way, has failed, or was interrupted) the manifest file
\* holds exactly the content it had when the run started.
C25_WriteAllOrNothing ==
    (sync.pc # "idle" /\ ~RunSucceeded) => mfile = sync.before

\* C26: a run returns False when the scan, the parse of an existing manifest
\* file or the write failed, and True otherwise.
C26_FalseOnEveryFailure ==
    sync.pc = "done" =>
        /\ sync.result \in {"true", "false"}
        /\ sync.result = "false" <=> (sync.failure # None \/ sync.before.state = "unparsable")

\* The rules of the table with a word that occurs in the lower-cased stem of
\* the file name of the profile.
RulesFor(p) ==
    {k \in 1..Len(CognitivePatterns) :
        \E w \in CognitivePatterns[k].words : Occurs(w, Lower(Stem(p.file)))}

TagSet(p) == {p.tags[i] : i \in 1..Len(p.tags)}

\* C27: the tags of a classified file are the base tags united with the tags
\* of every matching rule; its description is that of the first matching rule
\* in table order, or the generic one with only the base tags when no rule
\* matches; tinymodel-1b.Q4_K_M.gguf is named tinymodel and tagged base plus
\* efficient, compact, responsive.
C27_ClassifyByTable ==
    profile # NoProfile =>
        /\ TagSet(profile) = {"neural", "local"}
                                \cup UNION {CognitivePatterns[k].tags : k \in RulesFor(profile)}
        /\ \A k \in RulesFor(profile) :
              (\A j \in RulesFor(profile) : k <= j)
                  => profile.description = CognitivePatterns[k].description
        /\ RulesFor(profile) = {}
              => /\ profile.description
                       = "General-purpose neural architecture with balanced cognitive capabilities"
                 /\ TagSet(profile) = {"neural", "local"}
        /\ profile.file = "tinymodel-1b.Q4_K_M.gguf"
              => /\ profile.name = "tinymodel"
                 /\ TagSet(profile) = {"neural", "local", "efficient", "compact", "responsive"}

\* A file name two rules match: the description is the first rule's, the
\* tags are those of both.
C27_TwoRulesWitness ==
    /\ profile.file = "chat-phi-7b.gguf"
    /\ profile.name = "chat_phi"
    /\ profile.description = CognitivePatterns[1].description
    /\ TagSet(profile) = {"neural", "local", "reasoning", "logic", "analytical",
                          "conversational", "adaptive", "empathetic"}

\* The last call of the store was delete_persona.
Deleted == pcall.op = "delete"

\* The id is in the store: cached in memory or persisted in a file.
Exists(st, persona_id) ==
    \E q \in st.personas \cup st.files : q.id = persona_id

\* C28: delete_persona on an id that is not in the store returns false and
\* leaves the cached personas and the persona files as they were.
C28_DeleteUnknownLeavesStore ==
    (Deleted /\ ~Exists(pcall.before, pcall.persona_id))
        => /\ pcall.result = "false"
           /\ personas = pcall.before.personas
           /\ persona_files = pcall.before.files

\* delete_persona on an id never stored, with two personas loaded.
C28_UnknownIdWitness ==
    /\ Deleted
    /\ pcall.persona_id = "px"
    /\ pcall.before.loaded
    /\ pcall.before.personas = StoredPersonas
    /\ pcall.result = "false"

\* C29: delete_persona on a persona that exists returns true and removes its
\* cached entry and its file, whatever calls preceded it (none included); all
\* other personas are untouched.
C29_DeleteExistingRemoves ==
    (Deleted /\ Exists(pcall.before, pcall.persona_id))
        => /\ pcall.result = "true"
           /\ personas = {q \in pcall.before.personas : q.id # pcall.persona_id}
           /\ persona_files = {q \in pcall.before.files : q.id # pcall.persona_id}

\* The last call of the store was save_persona with a persona that has an
\* empty name, model or system_message.
SavedInvalid ==
    /\ pcall.op = "save"
    /\ (pcall.persona.name = "" \/ pcall.persona.model = ""
        \/ pcall.persona.system_message = "")

\* C30: save_persona on a persona with an empty name, model or system_message
\* returns false and changes neither the cached personas nor the files; every
\* persona in the store has the three fields non-empty.
C30_InvalidSaveRejected ==
    /\ SavedInvalid => /\ pcall.result = "false"
                       /\ personas = pcall.before.personas
                       /\ persona_files = pcall.before.files
    /\ \A q \in personas \cup persona_files :
          q.name # "" /\ q.model # "" /\ q.system_message # ""

\* A persona with an empty model was saved under the id of a stored persona.
C30_EmptyModelWitness ==
    /\ SavedInvalid
    /\ pcall.persona.model = ""
    /\ pcall.persona_id = "p1"
    /\ pcall.before.personas = StoredPersonas
    /\ pcall.result = "false"

\* The last call of the store loaded it for the first time.
FirstLoad == pcall.op \in {"get", "list"} /\ ~pcall.before.loaded

DefaultIds == {DefaultPersonas[i].id : i \in 1..Len(DefaultPersonas)}

\* C31: the first load of a store with no persisted persona leaves the three
\* default personas cached and persisted; a load of a store that holds a
\* persona synthesizes none.
C31_DefaultsSynthesizedOnce ==
    FirstLoad =>
        IF pcall.before.files = {} /\ pcall.before.personas = {}
        THEN /\ DefaultIds \subseteq {q.id : q \in personas}
             /\ DefaultIds \subseteq {q.id : q \in persona_files}
        ELSE /\ {q.id : q \in personas} \cap DefaultIds = {}
             /\ {q.id : q \in persona_files} \cap DefaultIds = {}

\* The label the formatter is to give a role, and the line of a message.
RoleLabel(role) ==
    IF role = "system" THEN "System" ELSE IF role = "assistant" THEN "Assistant" ELSE "Human"
LineOf(message) ==
    RoleLabel(IF "role" \in DOMAIN message THEN message.role ELSE "user")
        \o ": " \o (IF "content" \in DOMAIN message THEN message.content ELSE "")

\* C32: the formatter emits one line per input message, in input order,
\* labelled System, Human or Assistant by role and Human for every other
\* role; no message is dropped.
C32_OneLinePerMessage ==
    fmt.called =>
        /\ Len(fmt.parts) = Len(fmt.messages) + 1
        /\ \A i \in 1..Len(fmt.messages) :
              i <= Len(fmt.parts) => fmt.parts[i] = LineOf(fmt.messages[i])

RECURSIVE JoinedByBlankLine(_)
JoinedByBlankLine(parts) ==
    IF parts = <<>> THEN ""
    ELSE IF Len(parts) = 1 THEN parts[1]
    ELSE parts[1] \o "\n\n" \o JoinedByBlankLine(Tail(parts))

\* C33: for every message list, the empty one included, the prompt ends with
\* the cue "Assistant:", which is the last part and no other, and the parts
\* are joined by a blank line.
C33_EndsWithAssistantCue ==
    fmt.called =>
        /\ EndsWith(fmt.prompt, "Assistant:")
        /\ \A i \in 1..Len(fmt.parts) : fmt.parts[i] = "Assistant:" <=> i = Len(fmt.parts)
        /\ fmt.prompt = JoinedByBlankLine(fmt.parts)
        /\ Len(fmt.parts) > 1 => EndsWith(fmt.prompt, "\n\nAssistant:")
        /\ fmt.messages = <<>> => fmt.prompt = "Assistant:"

\* The formatter was called with the empty list.
C33_EmptyListWitness ==
    /\ fmt.called
    /\ fmt.messages = <<>>
    /\ fmt.prompt = "Assistant:"

AllCompleted ==
    /\ \A q \in Req : gsm[q].pc # "posted"
    /\ \E q \in Req : gsm[q].pc = "done"

\* C35: a key passed with a request is used for that request only: when all
\* requests have completed the manager's key is the one configured before
\* they started, and a request without a key never runs with the key of
\* another request.
C35_RequestKeyIsRequestScoped ==
    /\ AllCompleted => \A q \in Req : gsm[q].pc = "done" => openai_api_key = gsm[q].configured
    /\ \A q \in Req : (gsm[q].pc # "idle" /\ gsm[q].api_key = None /\ gsm[q].used # None)
                          => gsm[q].used = gsm[q].configured

\* C36: between calls of load_model and shutdown, current_model_name is set
\* if and only if a handle is held, and then it names the model the handle
\* was built from; so the "loaded" flag of get_available_models (name ==
\* current_model_name) is set only for the model whose handle is held.
C36_NameIffHandle ==
    LET flagged(name) == name = current_model_name
    IN Idle =>
        /\ current_model_name # None <=> current_model # NoHandle
        /\ current_model # NoHandle => current_model.model = current_model_name
        /\ \A i \in DOMAIN available_models :
               flagged(available_models[i].name) =>
                   current_model.model = available_models[i].name

\* A step in which chat_completions of request r gets past model resolution:
\* the requested model was current (api.py 145) or load_model returned true
\* (147-148), and the handler goes on to generate (154-182).
PastResolution(r) ==
    /\ rpc[r] \in {"new", "loading"}
    /\ \/ rpc'[r] = "generating" /\ gcall'.caller = [kind |-> "chat", r |-> r]
       \/ rpc'[r] = "responded" /\ status'[r] = "stream"

\* C37: whenever chat_completions gets past model resolution, a handle built
\* from the requested model is held, and the generation that follows does
\* not fail with "No model loaded".
C37_ResolvedModelIsHeld ==
    [][\A r \in Req : PastResolution(r) =>
          /\ current_model' # NoHandle
          /\ current_model'.model = rq'[r].model
          /\ gcall'.caller = [kind |-> "chat", r |-> r] => gcall'.result # "NotReady"]_vars

\* C38: after a successful run, with preserve_existing set or not, every
\* discovered model file has exactly one descriptor in the written manifest
\* and the manifest names no other file; so a file that was listed before
\* the run and is still discovered is listed after it.
C38_EveryDiscoveredFileListedOnce ==
    RunSucceeded =>
        /\ FilesOf(mfile.data) = sync.discovered
        /\ \A f \in sync.discovered :
               Cardinality({i \in 1..Len(mfile.data) : mfile.data[i].file = f}) = 1
        /\ \A f \in FilesOf(ExistingBefore) \cap sync.discovered :
               f \in FilesOf(mfile.data)

\* The ids of a set of personas.
IdsOf(ps) == {q.id : q \in ps}

\* C39: once the store has been loaded, after any save_persona and
\* delete_persona calls the ids cached in memory are the ids of the persona
\* files; a call that returns false changes neither.
C39_MemoryMatchesFiles ==
    /\ loaded => IdsOf(personas) = IdsOf(persona_files)
    /\ (pcall.op \in {"save", "delete"} /\ pcall.before.loaded
            /\ pcall.result = "false")
        => /\ personas = pcall.before.personas
           /\ persona_files = pcall.before.files

\* The token events the bridge is to send for the backend fragments frags,
\* text being what was generated before them.
RECURSIVE TokenEvents(_, _)
TokenEvents(frags, text) ==
    IF frags = <<>> THEN <<>>
    ELSE IF Head(frags) = "" THEN TokenEvents(Tail(frags), text)
    ELSE <<[event |-> "token", token |-> Head(frags), text |-> text \o Head(frags)]>>
         \o TokenEvents(Tail(frags), text \o Head(frags))

\* The text of all fragments.
RECURSIVE Concatenation(_)
Concatenation(frags) ==
    IF frags = <<>> THEN "" ELSE Head(frags) \o Concatenation(Tail(frags))

\* Connection c handles (or has handled last) a generate command that found a
\* model ready; its backend has not raised and the client is still there.
GenerateWhileReady(c) ==
    /\ ws[c].command = "generate"
    /\ ws[c].events # <<>>
    /\ ws[c].events[1].event = "generation_start"
    /\ ~ws[c].raised
    /\ ~ws[c].gone

\* C40: a generate command handled while a model is ready and whose backend
\* does not raise sends generation_start, then one token event per non-empty
\* backend fragment in backend order, each with the concatenation of the
\* tokens sent so far as text_so_far, then generation_complete with the
\* concatenation of all of them; nothing else is sent and the command is not
\* abandoned.
C40_GenerateEventSequence ==
    \A c \in Req : GenerateWhileReady(c) =>
        /\ ws[c].pc \in {"started", "streaming", "receive"}
        /\ Len(ws[c].events) >= 1
        /\ SubSeq(ws[c].events, 2, Len(ws[c].events))
             = TokenEvents(ws[c].out, "")
               \o (IF ws[c].pc = "receive"
                   THEN <<[event |-> "generation_complete", token |-> "",
                           text |-> Concatenation(ws[c].out)]>>
                   ELSE <<>>)

====
